---- MODULE Spec2Model ----
(***************************************************************************)
(* Model of the SOAR incident mock API (src/app.py): the in-memory         *)
(* incident collection, the lock-protected id counter and the five         *)
(* request handlers.                                                       *)
(*                                                                         *)
(* Two specifications are given over the same variables.                   *)
(*   Spec      worker threads run create_incident, update_incident and     *)
(*             delete_incident concurrently; a handler takes one step per  *)
(*             access to shared state (id_lock, id_counter, incidents), so *)
(*             the interleavings the interpreter allows are explored.  The *)
(*             read of the returned id and the release of id_lock that     *)
(*             follows it are one step.                                    *)
(*   SpecList  get_incidents as a function of the store and of its query   *)
(*             parameters, applied to stores drawn from a bounded set.     *)
(*                                                                         *)
(* Text is a sequence of Unicode code points, so that str.lower() is       *)
(* computed character by character.  Optional[str] is <<>> for None and    *)
(* <<s>> for the text s.                                                   *)
(***************************************************************************)
EXTENDS Integers, Sequences, FiniteSets, TLC

(***************************************************************************)
(* Bounds of the model.                                                    *)
(***************************************************************************)
NumThreads == 2      \* worker threads serving requests concurrently
MaxOps == 3          \* handler invocations in one behaviour of Spec
MaxStore == 3        \* length of the varied stores get_incidents is applied to
BigExtra == 2        \* the large stores hold up to PageCap + BigExtra incidents

(***************************************************************************)
(* Program constants.                                                      *)
(***************************************************************************)
SeedCounter == 3     \* id_counter = {"value": 3}
PageCap == 100       \* per_page = min(per_page, 100)

Threads == 1..NumThreads

(***************************************************************************)
(* Text.  A character is its Unicode code point and a text is a sequence   *)
(* of characters.  str.lower() maps every character by the lower-case      *)
(* mapping of the Unicode Character Database (14.0.0 in CPython 3.11),     *)
(* except that a capital sigma at the end of a word becomes a final sigma. *)
(***************************************************************************)
\* <<lo, hi, step, delta>>: each of the characters lo, lo + step, ..., hi
\* above U+007F has the character delta further on as its lower case
LowerRuns ==
    {
      <<192, 214, 1, 32>>, <<216, 222, 1, 32>>, <<256, 302, 2, 1>>, <<306, 310, 2, 1>>,
      <<313, 327, 2, 1>>, <<330, 374, 2, 1>>, <<376, 376, 1, -121>>, <<377, 381, 2, 1>>,
      <<385, 385, 1, 210>>, <<386, 388, 2, 1>>, <<390, 390, 1, 206>>, <<391, 391, 1, 1>>,
      <<393, 394, 1, 205>>, <<395, 395, 1, 1>>, <<398, 398, 1, 79>>, <<399, 399, 1, 202>>,
      <<400, 400, 1, 203>>, <<401, 401, 1, 1>>, <<403, 403, 1, 205>>, <<404, 404, 1, 207>>,
      <<406, 406, 1, 211>>, <<407, 407, 1, 209>>, <<408, 408, 1, 1>>, <<412, 412, 1, 211>>,
      <<413, 413, 1, 213>>, <<415, 415, 1, 214>>, <<416, 420, 2, 1>>, <<422, 422, 1, 218>>,
      <<423, 423, 1, 1>>, <<425, 425, 1, 218>>, <<428, 428, 1, 1>>, <<430, 430, 1, 218>>,
      <<431, 431, 1, 1>>, <<433, 434, 1, 217>>, <<435, 437, 2, 1>>, <<439, 439, 1, 219>>,
      <<440, 440, 1, 1>>, <<444, 444, 1, 1>>, <<452, 452, 1, 2>>, <<453, 453, 1, 1>>,
      <<455, 455, 1, 2>>, <<456, 456, 1, 1>>, <<458, 458, 1, 2>>, <<459, 475, 2, 1>>,
      <<478, 494, 2, 1>>, <<497, 497, 1, 2>>, <<498, 500, 2, 1>>, <<502, 502, 1, -97>>,
      <<503, 503, 1, -56>>, <<504, 542, 2, 1>>, <<544, 544, 1, -130>>, <<546, 562, 2, 1>>,
      <<570, 570, 1, 10795>>, <<571, 571, 1, 1>>, <<573, 573, 1, -163>>, <<574, 574, 1, 10792>>,
      <<577, 577, 1, 1>>, <<579, 579, 1, -195>>, <<580, 580, 1, 69>>, <<581, 581, 1, 71>>,
      <<582, 590, 2, 1>>, <<880, 882, 2, 1>>, <<886, 886, 1, 1>>, <<895, 895, 1, 116>>,
      <<902, 902, 1, 38>>, <<904, 906, 1, 37>>, <<908, 908, 1, 64>>, <<910, 911, 1, 63>>,
      <<913, 929, 1, 32>>, <<931, 939, 1, 32>>, <<975, 975, 1, 8>>, <<984, 1006, 2, 1>>,
      <<1012, 1012, 1, -60>>, <<1015, 1015, 1, 1>>, <<1017, 1017, 1, -7>>, <<1018, 1018, 1, 1>>,
      <<1021, 1023, 1, -130>>, <<1024, 1039, 1, 80>>, <<1040, 1071, 1, 32>>, <<1120, 1152, 2, 1>>,
      <<1162, 1214, 2, 1>>, <<1216, 1216, 1, 15>>, <<1217, 1229, 2, 1>>, <<1232, 1326, 2, 1>>,
      <<1329, 1366, 1, 48>>, <<4256, 4293, 1, 7264>>, <<4295, 4295, 1, 7264>>, <<4301, 4301, 1, 7264>>,
      <<5024, 5103, 1, 38864>>, <<5104, 5109, 1, 8>>, <<7312, 7354, 1, -3008>>, <<7357, 7359, 1, -3008>>,
      <<7680, 7828, 2, 1>>, <<7838, 7838, 1, -7615>>, <<7840, 7934, 2, 1>>, <<7944, 7951, 1, -8>>,
      <<7960, 7965, 1, -8>>, <<7976, 7983, 1, -8>>, <<7992, 7999, 1, -8>>, <<8008, 8013, 1, -8>>,
      <<8025, 8031, 2, -8>>, <<8040, 8047, 1, -8>>, <<8072, 8079, 1, -8>>, <<8088, 8095, 1, -8>>,
      <<8104, 8111, 1, -8>>, <<8120, 8121, 1, -8>>, <<8122, 8123, 1, -74>>, <<8124, 8124, 1, -9>>,
      <<8136, 8139, 1, -86>>, <<8140, 8140, 1, -9>>, <<8152, 8153, 1, -8>>, <<8154, 8155, 1, -100>>,
      <<8168, 8169, 1, -8>>, <<8170, 8171, 1, -112>>, <<8172, 8172, 1, -7>>, <<8184, 8185, 1, -128>>,
      <<8186, 8187, 1, -126>>, <<8188, 8188, 1, -9>>, <<8486, 8486, 1, -7517>>, <<8490, 8490, 1, -8383>>,
      <<8491, 8491, 1, -8262>>, <<8498, 8498, 1, 28>>, <<8544, 8559, 1, 16>>, <<8579, 8579, 1, 1>>,
      <<9398, 9423, 1, 26>>, <<11264, 11311, 1, 48>>, <<11360, 11360, 1, 1>>, <<11362, 11362, 1, -10743>>,
      <<11363, 11363, 1, -3814>>, <<11364, 11364, 1, -10727>>, <<11367, 11371, 2, 1>>, <<11373, 11373, 1, -10780>>,
      <<11374, 11374, 1, -10749>>, <<11375, 11375, 1, -10783>>, <<11376, 11376, 1, -10782>>, <<11378, 11378, 1, 1>>,
      <<11381, 11381, 1, 1>>, <<11390, 11391, 1, -10815>>, <<11392, 11490, 2, 1>>, <<11499, 11501, 2, 1>>,
      <<11506, 11506, 1, 1>>, <<42560, 42604, 2, 1>>, <<42624, 42650, 2, 1>>, <<42786, 42798, 2, 1>>,
      <<42802, 42862, 2, 1>>, <<42873, 42875, 2, 1>>, <<42877, 42877, 1, -35332>>, <<42878, 42886, 2, 1>>,
      <<42891, 42891, 1, 1>>, <<42893, 42893, 1, -42280>>, <<42896, 42898, 2, 1>>, <<42902, 42920, 2, 1>>,
      <<42922, 42922, 1, -42308>>, <<42923, 42923, 1, -42319>>, <<42924, 42924, 1, -42315>>, <<42925, 42925, 1, -42305>>,
      <<42926, 42926, 1, -42308>>, <<42928, 42928, 1, -42258>>, <<42929, 42929, 1, -42282>>, <<42930, 42930, 1, -42261>>,
      <<42931, 42931, 1, 928>>, <<42932, 42946, 2, 1>>, <<42948, 42948, 1, -48>>, <<42949, 42949, 1, -42307>>,
      <<42950, 42950, 1, -35384>>, <<42951, 42953, 2, 1>>, <<42960, 42960, 1, 1>>, <<42966, 42968, 2, 1>>,
      <<42997, 42997, 1, 1>>, <<65313, 65338, 1, 32>>, <<66560, 66599, 1, 40>>, <<66736, 66771, 1, 40>>,
      <<66928, 66938, 1, 39>>, <<66940, 66954, 1, 39>>, <<66956, 66962, 1, 39>>, <<66964, 66965, 1, 39>>,
      <<68736, 68786, 1, 64>>, <<71840, 71871, 1, 32>>, <<93760, 93791, 1, 32>>, <<125184, 125217, 1, 34>> }

\* <<lo, hi>>: the characters lo..hi are cased and not case-ignorable
CasedRanges ==
    {
      <<65, 90>>, <<97, 122>>, <<170, 170>>, <<181, 181>>, <<186, 186>>, <<192, 214>>,
      <<216, 246>>, <<248, 442>>, <<444, 447>>, <<452, 659>>, <<661, 687>>, <<880, 883>>,
      <<886, 887>>, <<891, 893>>, <<895, 895>>, <<902, 902>>, <<904, 906>>, <<908, 908>>,
      <<910, 929>>, <<931, 1013>>, <<1015, 1153>>, <<1162, 1327>>, <<1329, 1366>>, <<1376, 1416>>,
      <<4256, 4293>>, <<4295, 4295>>, <<4301, 4301>>, <<4304, 4346>>, <<4349, 4351>>, <<5024, 5109>>,
      <<5112, 5117>>, <<7296, 7304>>, <<7312, 7354>>, <<7357, 7359>>, <<7424, 7467>>, <<7531, 7543>>,
      <<7545, 7578>>, <<7680, 7957>>, <<7960, 7965>>, <<7968, 8005>>, <<8008, 8013>>, <<8016, 8023>>,
      <<8025, 8025>>, <<8027, 8027>>, <<8029, 8029>>, <<8031, 8061>>, <<8064, 8116>>, <<8118, 8124>>,
      <<8126, 8126>>, <<8130, 8132>>, <<8134, 8140>>, <<8144, 8147>>, <<8150, 8155>>, <<8160, 8172>>,
      <<8178, 8180>>, <<8182, 8188>>, <<8450, 8450>>, <<8455, 8455>>, <<8458, 8467>>, <<8469, 8469>>,
      <<8473, 8477>>, <<8484, 8484>>, <<8486, 8486>>, <<8488, 8488>>, <<8490, 8493>>, <<8495, 8500>>,
      <<8505, 8505>>, <<8508, 8511>>, <<8517, 8521>>, <<8526, 8526>>, <<8544, 8575>>, <<8579, 8580>>,
      <<9398, 9449>>, <<11264, 11387>>, <<11390, 11492>>, <<11499, 11502>>, <<11506, 11507>>, <<11520, 11557>>,
      <<11559, 11559>>, <<11565, 11565>>, <<42560, 42605>>, <<42624, 42651>>, <<42786, 42863>>, <<42865, 42887>>,
      <<42891, 42894>>, <<42896, 42954>>, <<42960, 42961>>, <<42963, 42963>>, <<42965, 42969>>, <<42997, 42998>>,
      <<43002, 43002>>, <<43824, 43866>>, <<43872, 43880>>, <<43888, 43967>>, <<64256, 64262>>, <<64275, 64279>>,
      <<65313, 65338>>, <<65345, 65370>>, <<66560, 66639>>, <<66736, 66771>>, <<66776, 66811>>, <<66928, 66938>>,
      <<66940, 66954>>, <<66956, 66962>>, <<66964, 66965>>, <<66967, 66977>>, <<66979, 66993>>, <<66995, 67001>>,
      <<67003, 67004>>, <<68736, 68786>>, <<68800, 68850>>, <<71840, 71903>>, <<93760, 93823>>, <<119808, 119892>>,
      <<119894, 119964>>, <<119966, 119967>>, <<119970, 119970>>, <<119973, 119974>>, <<119977, 119980>>, <<119982, 119993>>,
      <<119995, 119995>>, <<119997, 120003>>, <<120005, 120069>>, <<120071, 120074>>, <<120077, 120084>>, <<120086, 120092>>,
      <<120094, 120121>>, <<120123, 120126>>, <<120128, 120132>>, <<120134, 120134>>, <<120138, 120144>>, <<120146, 120485>>,
      <<120488, 120512>>, <<120514, 120538>>, <<120540, 120570>>, <<120572, 120596>>, <<120598, 120628>>, <<120630, 120654>>,
      <<120656, 120686>>, <<120688, 120712>>, <<120714, 120744>>, <<120746, 120770>>, <<120772, 120779>>, <<122624, 122633>>,
      <<122635, 122654>>, <<125184, 125251>>, <<127280, 127305>>, <<127312, 127337>>, <<127344, 127369>> }

\* <<lo, hi>>: the characters lo..hi are case-ignorable
CaseIgnorableRanges ==
    {
      <<39, 39>>, <<46, 46>>, <<58, 58>>, <<94, 94>>, <<96, 96>>, <<168, 168>>,
      <<173, 173>>, <<175, 175>>, <<180, 180>>, <<183, 184>>, <<688, 879>>, <<884, 885>>,
      <<890, 890>>, <<900, 901>>, <<903, 903>>, <<1155, 1161>>, <<1369, 1369>>, <<1375, 1375>>,
      <<1425, 1469>>, <<1471, 1471>>, <<1473, 1474>>, <<1476, 1477>>, <<1479, 1479>>, <<1524, 1524>>,
      <<1536, 1541>>, <<1552, 1562>>, <<1564, 1564>>, <<1600, 1600>>, <<1611, 1631>>, <<1648, 1648>>,
      <<1750, 1757>>, <<1759, 1768>>, <<1770, 1773>>, <<1807, 1807>>, <<1809, 1809>>, <<1840, 1866>>,
      <<1958, 1968>>, <<2027, 2037>>, <<2042, 2042>>, <<2045, 2045>>, <<2070, 2093>>, <<2137, 2139>>,
      <<2184, 2184>>, <<2192, 2193>>, <<2200, 2207>>, <<2249, 2306>>, <<2362, 2362>>, <<2364, 2364>>,
      <<2369, 2376>>, <<2381, 2381>>, <<2385, 2391>>, <<2402, 2403>>, <<2417, 2417>>, <<2433, 2433>>,
      <<2492, 2492>>, <<2497, 2500>>, <<2509, 2509>>, <<2530, 2531>>, <<2558, 2558>>, <<2561, 2562>>,
      <<2620, 2620>>, <<2625, 2626>>, <<2631, 2632>>, <<2635, 2637>>, <<2641, 2641>>, <<2672, 2673>>,
      <<2677, 2677>>, <<2689, 2690>>, <<2748, 2748>>, <<2753, 2757>>, <<2759, 2760>>, <<2765, 2765>>,
      <<2786, 2787>>, <<2810, 2815>>, <<2817, 2817>>, <<2876, 2876>>, <<2879, 2879>>, <<2881, 2884>>,
      <<2893, 2893>>, <<2901, 2902>>, <<2914, 2915>>, <<2946, 2946>>, <<3008, 3008>>, <<3021, 3021>>,
      <<3072, 3072>>, <<3076, 3076>>, <<3132, 3132>>, <<3134, 3136>>, <<3142, 3144>>, <<3146, 3149>>,
      <<3157, 3158>>, <<3170, 3171>>, <<3201, 3201>>, <<3260, 3260>>, <<3263, 3263>>, <<3270, 3270>>,
      <<3276, 3277>>, <<3298, 3299>>, <<3328, 3329>>, <<3387, 3388>>, <<3393, 3396>>, <<3405, 3405>>,
      <<3426, 3427>>, <<3457, 3457>>, <<3530, 3530>>, <<3538, 3540>>, <<3542, 3542>>, <<3633, 3633>>,
      <<3636, 3642>>, <<3654, 3662>>, <<3761, 3761>>, <<3764, 3772>>, <<3782, 3782>>, <<3784, 3789>>,
      <<3864, 3865>>, <<3893, 3893>>, <<3895, 3895>>, <<3897, 3897>>, <<3953, 3966>>, <<3968, 3972>>,
      <<3974, 3975>>, <<3981, 3991>>, <<3993, 4028>>, <<4038, 4038>>, <<4141, 4144>>, <<4146, 4151>>,
      <<4153, 4154>>, <<4157, 4158>>, <<4184, 4185>>, <<4190, 4192>>, <<4209, 4212>>, <<4226, 4226>>,
      <<4229, 4230>>, <<4237, 4237>>, <<4253, 4253>>, <<4348, 4348>>, <<4957, 4959>>, <<5906, 5908>>,
      <<5938, 5939>>, <<5970, 5971>>, <<6002, 6003>>, <<6068, 6069>>, <<6071, 6077>>, <<6086, 6086>>,
      <<6089, 6099>>, <<6103, 6103>>, <<6109, 6109>>, <<6155, 6159>>, <<6211, 6211>>, <<6277, 6278>>,
      <<6313, 6313>>, <<6432, 6434>>, <<6439, 6440>>, <<6450, 6450>>, <<6457, 6459>>, <<6679, 6680>>,
      <<6683, 6683>>, <<6742, 6742>>, <<6744, 6750>>, <<6752, 6752>>, <<6754, 6754>>, <<6757, 6764>>,
      <<6771, 6780>>, <<6783, 6783>>, <<6823, 6823>>, <<6832, 6862>>, <<6912, 6915>>, <<6964, 6964>>,
      <<6966, 6970>>, <<6972, 6972>>, <<6978, 6978>>, <<7019, 7027>>, <<7040, 7041>>, <<7074, 7077>>,
      <<7080, 7081>>, <<7083, 7085>>, <<7142, 7142>>, <<7144, 7145>>, <<7149, 7149>>, <<7151, 7153>>,
      <<7212, 7219>>, <<7222, 7223>>, <<7288, 7293>>, <<7376, 7378>>, <<7380, 7392>>, <<7394, 7400>>,
      <<7405, 7405>>, <<7412, 7412>>, <<7416, 7417>>, <<7468, 7530>>, <<7544, 7544>>, <<7579, 7679>>,
      <<8125, 8125>>, <<8127, 8129>>, <<8141, 8143>>, <<8157, 8159>>, <<8173, 8175>>, <<8189, 8190>>,
      <<8203, 8207>>, <<8216, 8217>>, <<8228, 8228>>, <<8231, 8231>>, <<8234, 8238>>, <<8288, 8292>>,
      <<8294, 8303>>, <<8305, 8305>>, <<8319, 8319>>, <<8336, 8348>>, <<8400, 8432>>, <<11388, 11389>>,
      <<11503, 11505>>, <<11631, 11631>>, <<11647, 11647>>, <<11744, 11775>>, <<11823, 11823>>, <<12293, 12293>>,
      <<12330, 12333>>, <<12337, 12341>>, <<12347, 12347>>, <<12441, 12446>>, <<12540, 12542>>, <<40981, 40981>>,
      <<42232, 42237>>, <<42508, 42508>>, <<42607, 42610>>, <<42612, 42621>>, <<42623, 42623>>, <<42652, 42655>>,
      <<42736, 42737>>, <<42752, 42785>>, <<42864, 42864>>, <<42888, 42890>>, <<42994, 42996>>, <<43000, 43001>>,
      <<43010, 43010>>, <<43014, 43014>>, <<43019, 43019>>, <<43045, 43046>>, <<43052, 43052>>, <<43204, 43205>>,
      <<43232, 43249>>, <<43263, 43263>>, <<43302, 43309>>, <<43335, 43345>>, <<43392, 43394>>, <<43443, 43443>>,
      <<43446, 43449>>, <<43452, 43453>>, <<43471, 43471>>, <<43493, 43494>>, <<43561, 43566>>, <<43569, 43570>>,
      <<43573, 43574>>, <<43587, 43587>>, <<43596, 43596>>, <<43632, 43632>>, <<43644, 43644>>, <<43696, 43696>>,
      <<43698, 43700>>, <<43703, 43704>>, <<43710, 43711>>, <<43713, 43713>>, <<43741, 43741>>, <<43756, 43757>>,
      <<43763, 43764>>, <<43766, 43766>>, <<43867, 43871>>, <<43881, 43883>>, <<44005, 44005>>, <<44008, 44008>>,
      <<44013, 44013>>, <<64286, 64286>>, <<64434, 64450>>, <<65024, 65039>>, <<65043, 65043>>, <<65056, 65071>>,
      <<65106, 65106>>, <<65109, 65109>>, <<65279, 65279>>, <<65287, 65287>>, <<65294, 65294>>, <<65306, 65306>>,
      <<65342, 65342>>, <<65344, 65344>>, <<65392, 65392>>, <<65438, 65439>>, <<65507, 65507>>, <<65529, 65531>>,
      <<66045, 66045>>, <<66272, 66272>>, <<66422, 66426>>, <<67456, 67461>>, <<67463, 67504>>, <<67506, 67514>>,
      <<68097, 68099>>, <<68101, 68102>>, <<68108, 68111>>, <<68152, 68154>>, <<68159, 68159>>, <<68325, 68326>>,
      <<68900, 68903>>, <<69291, 69292>>, <<69446, 69456>>, <<69506, 69509>>, <<69633, 69633>>, <<69688, 69702>>,
      <<69744, 69744>>, <<69747, 69748>>, <<69759, 69761>>, <<69811, 69814>>, <<69817, 69818>>, <<69821, 69821>>,
      <<69826, 69826>>, <<69837, 69837>>, <<69888, 69890>>, <<69927, 69931>>, <<69933, 69940>>, <<70003, 70003>>,
      <<70016, 70017>>, <<70070, 70078>>, <<70089, 70092>>, <<70095, 70095>>, <<70191, 70193>>, <<70196, 70196>>,
      <<70198, 70199>>, <<70206, 70206>>, <<70367, 70367>>, <<70371, 70378>>, <<70400, 70401>>, <<70459, 70460>>,
      <<70464, 70464>>, <<70502, 70508>>, <<70512, 70516>>, <<70712, 70719>>, <<70722, 70724>>, <<70726, 70726>>,
      <<70750, 70750>>, <<70835, 70840>>, <<70842, 70842>>, <<70847, 70848>>, <<70850, 70851>>, <<71090, 71093>>,
      <<71100, 71101>>, <<71103, 71104>>, <<71132, 71133>>, <<71219, 71226>>, <<71229, 71229>>, <<71231, 71232>>,
      <<71339, 71339>>, <<71341, 71341>>, <<71344, 71349>>, <<71351, 71351>>, <<71453, 71455>>, <<71458, 71461>>,
      <<71463, 71467>>, <<71727, 71735>>, <<71737, 71738>>, <<71995, 71996>>, <<71998, 71998>>, <<72003, 72003>>,
      <<72148, 72151>>, <<72154, 72155>>, <<72160, 72160>>, <<72193, 72202>>, <<72243, 72248>>, <<72251, 72254>>,
      <<72263, 72263>>, <<72273, 72278>>, <<72281, 72283>>, <<72330, 72342>>, <<72344, 72345>>, <<72752, 72758>>,
      <<72760, 72765>>, <<72767, 72767>>, <<72850, 72871>>, <<72874, 72880>>, <<72882, 72883>>, <<72885, 72886>>,
      <<73009, 73014>>, <<73018, 73018>>, <<73020, 73021>>, <<73023, 73029>>, <<73031, 73031>>, <<73104, 73105>>,
      <<73109, 73109>>, <<73111, 73111>>, <<73459, 73460>>, <<78896, 78904>>, <<92912, 92916>>, <<92976, 92982>>,
      <<92992, 92995>>, <<94031, 94031>>, <<94095, 94111>>, <<94176, 94177>>, <<94179, 94180>>, <<110576, 110579>>,
      <<110581, 110587>>, <<110589, 110590>>, <<113821, 113822>>, <<113824, 113827>>, <<118528, 118573>>, <<118576, 118598>>,
      <<119143, 119145>>, <<119155, 119170>>, <<119173, 119179>>, <<119210, 119213>>, <<119362, 119364>>, <<121344, 121398>>,
      <<121403, 121452>>, <<121461, 121461>>, <<121476, 121476>>, <<121499, 121503>>, <<121505, 121519>>, <<122880, 122886>>,
      <<122888, 122904>>, <<122907, 122913>>, <<122915, 122916>>, <<122918, 122922>>, <<123184, 123197>>, <<123566, 123566>>,
      <<123628, 123631>>, <<125136, 125142>>, <<125252, 125259>>, <<127995, 127999>>, <<917505, 917505>>, <<917536, 917631>>,
      <<917760, 917999>> }

InRun(c, r) == r[1] <= c /\ c <= r[2] /\ (c - r[1]) % r[3] = 0
InRanges(c, rs) == \E r \in rs : r[1] <= c /\ c <= r[2]

\* str.lower() on a text of the one character c: A-Z (65..90) lower by 32,
\* U+0130 lowers to the two characters U+0069 U+0307
LowerChar(c) ==
    IF c < 128 THEN <<IF 65 <= c /\ c <= 90 THEN c + 32 ELSE c>>
    ELSE IF c = 304 THEN <<105, 775>>
    ELSE LET runs == { r \in LowerRuns : InRun(c, r) }
         IN  IF runs = {} THEN <<c>> ELSE <<c + (CHOOSE r \in runs : TRUE)[4]>>

\* the character at k ends a word: the nearest character before it that is
\* not case-ignorable is cased, and the nearest one after it is not
FinalSigma(s, k) ==
    /\ \E j \in 1..(k - 1) :
           /\ InRanges(s[j], CasedRanges)
           /\ \A m \in (j + 1)..(k - 1) : InRanges(s[m], CaseIgnorableRanges)
    /\ ~\E j \in (k + 1)..Len(s) :
           /\ InRanges(s[j], CasedRanges)
           /\ \A m \in (k + 1)..(j - 1) : InRanges(s[m], CaseIgnorableRanges)

\* the lower case of s from its k-th character on: U+03A3 at the end of a
\* word becomes U+03C2, every other character lowers as it does alone
RECURSIVE LowerFrom(_, _)
LowerFrom(s, k) ==
    IF k > Len(s) THEN <<>>
    ELSE (IF s[k] = 931 /\ FinalSigma(s, k) THEN <<962>> ELSE LowerChar(s[k]))
             \o LowerFrom(s, k + 1)

\* str.lower(): a text of ASCII characters only keeps its length and has
\* A-Z lowered, any other text is lowered character by character
Lower(s) ==
    IF \A k \in 1..Len(s) : s[k] < 128
    THEN [k \in 1..Len(s) |-> IF 65 <= s[k] /\ s[k] <= 90 THEN s[k] + 32 ELSE s[k]]
    ELSE LowerFrom(s, 1)

None == <<>>
Some(s) == <<s>>

\* truth value of an Optional[str]: None and "" are both false
Truthy(opt) == opt # None /\ opt[1] # <<>>

s_open == <<111, 112, 101, 110>>
s_OPEN == <<79, 80, 69, 78>>
s_Open == <<79, 112, 101, 110>>
s_closed == <<99, 108, 111, 115, 101, 100>>
s_under_investigation ==
    <<117, 110, 100, 101, 114, 32, 105, 110, 118, 101, 115, 116, 105, 103, 97, 116, 105, 111, 110>>
s_high == <<104, 105, 103, 104>>
s_HIGH == <<72, 73, 71, 72>>
s_medium == <<109, 101, 100, 105, 117, 109>>
s_low == <<108, 111, 119>>
s_empty == <<>>

(***************************************************************************)
(* Integer helpers.                                                        *)
(***************************************************************************)
Min(a, b) == IF a <= b THEN a ELSE b
Max(a, b) == IF a >= b THEN a ELSE b

\* Python's a // b for b # 0: the quotient rounded towards minus infinity
FloorDiv(a, b) == IF b > 0 THEN a \div b ELSE (0 - a) \div (0 - b)

\* Python's s[start:end] on a list: negative indices count from the end,
\* both ends are clamped to the list, an empty window gives []
SliceIndex(n, len) == IF n < 0 THEN Max(n + len, 0) ELSE Min(n, len)
PySlice(s, start, end) ==
    LET lo == SliceIndex(start, Len(s))
        hi == SliceIndex(end, Len(s))
    IN  IF lo < hi THEN SubSeq(s, lo + 1, hi) ELSE <<>>

\* list.pop(i) for 0 <= i < len: the list without the element at index i
PopAtTruncate(s, i) == SubSeq(s, 1, i)
PopAt(s, i) == [k \in 1..(Len(s) - 1) |-> IF k <= i THEN s[k] ELSE s[k + 1]]

(***************************************************************************)
(* The incident records.  ref models the identity of the Python dict, so   *)
(* that an in-place update through a held reference finds its object.      *)
(***************************************************************************)
MkIncident(id, title, st, sev, ref) ==
    [id |-> id, title |-> title, status |-> st, severity |-> sev, ref |-> ref]

SeedIncidents ==
    << MkIncident(1, "Phishing Email Campaign Detected", s_open, s_high, 1),
       MkIncident(2, "Malware Detected on Endpoint", s_closed, s_medium, 2),
       MkIncident(3, "Suspicious Login from Foreign IP", s_under_investigation, s_low, 3) >>

\* response_model=Incident: the four fields of the Incident model
ToIncident(d) ==
    [id |-> d.id, title |-> d.title, status |-> d.status, severity |-> d.severity]

Ids(s) == { s[k].id : k \in 1..Len(s) }

VARIABLES
    incidents,    \* the collection: a sequence of incident records
    id_counter,   \* id_counter["value"]
    id_lock,      \* 0 when free, else the thread holding it
    pc,           \* pc[t]: where thread t is in its handler
    loc,          \* loc[t]: the locals of the handler thread t runs
    created,      \* history: one record per create_incident that returned
    issued,       \* history: the values get_next_id has returned
    deleted,      \* history: the ids delete_incident has removed
    ops,          \* history: number of handler invocations so far
    resp,         \* the response of the last handler that returned
    lst,          \* get_incidents: its parameters and its filtered list
    hist          \* history of the calls, kept by SpecSeq, SpecRace and SpecScan

vars == <<incidents, id_counter, id_lock, pc, loc, created, issued, deleted,
          ops, resp, lst, hist>>

(***************************************************************************)
(* Requests.                                                               *)
(***************************************************************************)
\* POST bodies that pass validation: title and severity present, status optional
CreateBodies ==
    { [title |-> "lateral movement detected", status |-> None, severity |-> s_high] }

\* IncidentCreate: status defaults to "open"
IncidentCreate(body) ==
    [title |-> body.title,
     status |-> IF body.status = None THEN s_open ELSE body.status[1],
     severity |-> body.severity]

\* PATCH bodies that pass validation
UpdateBodies == { [status |-> s_closed] }

\* incident_id path parameters: two seeded ids and the first id to be allocated
IdArgs == {1, 3, 4}

\* incident_id of the updates of Spec: the two seeded ids
UpdateArgs == {1, 3}

NoIncident == MkIncident(0, "", <<>>, <<>>, 0)
NoData == [title |-> "", status |-> <<>>, severity |-> <<>>]

NoQuery == [status |-> None, severity |-> None, page |-> 0, per_page |-> 0]

IdleLoc ==
    [op |-> "none", arg |-> 0, data |-> NoData, tmp |-> 0, idx |-> 0, i |-> 0,
     cur |-> NoIncident, before |-> {}, delBefore |-> {},
     q |-> NoQuery, live |-> FALSE, filtered |-> <<>>, acc |-> <<>>, total |-> 0,
     paginated |-> <<>>]

NoResp == [op |-> "none", arg |-> 0, code |-> 0, body |-> <<>>]
NoList == [status |-> None, severity |-> None, page |-> 0, per_page |-> 0,
           filtered |-> <<>>]
NoRequest == [op |-> "none", arg |-> 0, body |-> <<>>, user |-> None]
NoCall == [op |-> "none", arg |-> 0, code |-> 0, body |-> <<>>, made |-> {}, delOk |-> {},
           alone |-> TRUE, q |-> NoQuery]
NoHist == [pre |-> <<>>, req |-> NoRequest, made |-> {}, updated |-> {}, delOk |-> {},
           began |-> [t \in Threads |-> NoCall], done |-> NoCall, snaps |-> {}]

\* the worker pool hands a request to an idle thread; the threads are
\* interchangeable, so the lowest idle one takes it
TakesRequest(t) ==
    /\ pc[t] = "idle"
    /\ \A u \in Threads : u < t => pc[u] # "idle"
    /\ ops < MaxOps

NotFound(op, x) == [op |-> op, arg |-> x, code |-> 404, body |-> <<>>]
ServerError(op, x) == [op |-> op, arg |-> x, code |-> 500, body |-> <<>>]

Init ==
    /\ incidents = SeedIncidents
    /\ id_counter = SeedCounter
    /\ id_lock = 0
    /\ pc = [t \in Threads |-> "idle"]
    /\ loc = [t \in Threads |-> IdleLoc]
    /\ created = <<>>
    /\ issued = {}
    /\ deleted = {}
    /\ ops = 0
    /\ resp = NoResp
    /\ lst = NoList
    /\ hist = NoHist

CreatedIds == { created[k].id : k \in 1..Len(created) }

(***************************************************************************)
(* get_next_id: with id_lock: id_counter["value"] += 1; return it          *)
(***************************************************************************)
\* threading.Lock.acquire() proceeds only when the lock is free
CanAcquireUnguarded(lock) == TRUE
CanAcquire(lock) == lock = 0

\* leaving the with id_lock block: Lock.__exit__ releases the lock
ReleaseNot(lock) == lock
Release(lock) == 0

\* id_counter["value"] += 1, on the value loaded
IncrementedNot(v) == v
Incremented(v) == v + 1

GniAcquire(t) ==
    /\ pc[t] = "gni_acquire"
    /\ CanAcquire(id_lock)
    /\ id_lock' = t
    /\ pc' = [pc EXCEPT ![t] = "gni_load"]
    /\ UNCHANGED <<incidents, id_counter, loc, created, issued, deleted, ops, resp, lst>>

GniLoad(t) ==
    /\ pc[t] = "gni_load"
    /\ loc' = [loc EXCEPT ![t].tmp = id_counter]
    /\ pc' = [pc EXCEPT ![t] = "gni_store"]
    /\ UNCHANGED <<incidents, id_counter, id_lock, created, issued, deleted, ops, resp, lst>>

GniStore(t) ==
    /\ pc[t] = "gni_store"
    /\ id_counter' = Incremented(loc[t].tmp)
    /\ pc' = [pc EXCEPT ![t] = "gni_return"]
    /\ UNCHANGED <<incidents, id_lock, loc, created, issued, deleted, ops, resp, lst>>

\* return id_counter["value"]: the value is read and becomes the "id" of
\* new_incident; leaving the with block releases the lock
GniReturn(t) ==
    /\ pc[t] = "gni_return"
    /\ loc' = [loc EXCEPT ![t].cur =
                 MkIncident(id_counter, loc[t].data.title, loc[t].data.status,
                            loc[t].data.severity, loc[t].cur.ref)]
    /\ issued' = issued \cup {id_counter}
    /\ id_lock' = Release(id_lock)
    /\ pc' = [pc EXCEPT ![t] = "create_append"]
    /\ UNCHANGED <<incidents, id_counter, created, deleted, ops, resp, lst>>

(***************************************************************************)
(* create_incident                                                         *)
(***************************************************************************)
CreateBegin(t, body) ==
    /\ TakesRequest(t)
    /\ ops' = ops + 1
    /\ loc' = [loc EXCEPT ![t] =
                 [IdleLoc EXCEPT !.op = "create",
                                 !.data = IncidentCreate(body),
                                 !.cur = MkIncident(0, "", <<>>, <<>>, SeedCounter + ops + 1),
                                 !.before = CreatedIds,
                                 !.delBefore = deleted]]
    /\ pc' = [pc EXCEPT ![t] = "gni_acquire"]
    /\ UNCHANGED <<incidents, id_counter, id_lock, created, issued, deleted, resp, lst>>

\* incidents.append(new_incident)
CreateAppend(t) ==
    /\ pc[t] = "create_append"
    /\ incidents' = Append(incidents, loc[t].cur)
    /\ pc' = [pc EXCEPT ![t] = "create_return"]
    /\ UNCHANGED <<id_counter, id_lock, loc, created, issued, deleted, ops, resp, lst>>

\* return new_incident (201)
CreateReturn(t) ==
    /\ pc[t] = "create_return"
    /\ created' = Append(created, [id |-> loc[t].cur.id,
                                   before |-> loc[t].before,
                                   delBefore |-> loc[t].delBefore])
    /\ resp' = [op |-> "create", arg |-> 0, code |-> 201,
                body |-> <<ToIncident(loc[t].cur)>>]
    /\ loc' = [loc EXCEPT ![t] = IdleLoc]
    /\ pc' = [pc EXCEPT ![t] = "idle"]
    /\ UNCHANGED <<incidents, id_counter, id_lock, issued, deleted, ops, lst>>

(***************************************************************************)
(* update_incident: for incident in incidents: if incident["id"] == id:    *)
(*                      incident["status"] = update_data.status            *)
(***************************************************************************)
UpdateBegin(t, x, body) ==
    /\ TakesRequest(t)
    /\ ops' = ops + 1
    /\ loc' = [loc EXCEPT ![t] =
                 [IdleLoc EXCEPT !.op = "update", !.arg = x,
                                 !.data = [NoData EXCEPT !.status = body.status]]]
    /\ pc' = [pc EXCEPT ![t] = "upd_scan"]
    /\ UNCHANGED <<incidents, id_counter, id_lock, created, issued, deleted, resp, lst>>

\* one turn of the for loop: the list iterator yields incidents[idx] or is
\* exhausted (404); the id of the element is compared with incident_id
UpdScan(t) ==
    /\ pc[t] = "upd_scan"
    /\ IF loc[t].idx < Len(incidents)
       THEN LET inc == incidents[loc[t].idx + 1] IN
            /\ loc' = [loc EXCEPT ![t].idx = loc[t].idx + 1, ![t].cur = inc]
            /\ pc' = [pc EXCEPT ![t] = IF inc.id = loc[t].arg THEN "upd_write" ELSE "upd_scan"]
            /\ UNCHANGED resp
       ELSE /\ resp' = NotFound("update", loc[t].arg)
            /\ loc' = [loc EXCEPT ![t] = IdleLoc]
            /\ pc' = [pc EXCEPT ![t] = "idle"]
    /\ UNCHANGED <<incidents, id_counter, id_lock, created, issued, deleted, ops, lst>>

\* the dict with identity ref gets its "status" replaced, wherever it is held
WriteStatus(d, ref, st) == IF d.ref = ref THEN [d EXCEPT !.status = st] ELSE d

\* the same write on every dict of a list that a thread holds
WriteStatusAll(s, ref, st) == [k \in 1..Len(s) |-> WriteStatus(s[k], ref, st)]

\* incident["status"] = update_data.status: the dict is the one the
\* collection, the locals of the other handlers and the lists that the
\* comprehensions and the slice of get_incidents have built all refer to
UpdWrite(t) ==
    /\ pc[t] = "upd_write"
    /\ LET ref == loc[t].cur.ref
           st == loc[t].data.status
       IN  /\ incidents' = WriteStatusAll(incidents, ref, st)
           /\ loc' = [u \in Threads |->
                        [loc[u] EXCEPT !.cur = WriteStatus(loc[u].cur, ref, st),
                                       !.acc = WriteStatusAll(loc[u].acc, ref, st),
                                       !.filtered = WriteStatusAll(loc[u].filtered, ref, st),
                                       !.paginated = WriteStatusAll(loc[u].paginated, ref, st)]]
    /\ pc' = [pc EXCEPT ![t] = "upd_return"]
    /\ UNCHANGED <<id_counter, id_lock, created, issued, deleted, ops, resp, lst>>

\* return incident (200): the response is serialised from the dict as it is
\* once the handler has returned
UpdReturn(t) ==
    /\ pc[t] = "upd_return"
    /\ resp' = [op |-> "update", arg |-> loc[t].arg, code |-> 200,
                body |-> <<ToIncident(loc[t].cur)>>]
    /\ loc' = [loc EXCEPT ![t] = IdleLoc]
    /\ pc' = [pc EXCEPT ![t] = "idle"]
    /\ UNCHANGED <<incidents, id_counter, id_lock, created, issued, deleted, ops, lst>>

(***************************************************************************)
(* delete_incident: for i, incident in enumerate(incidents):               *)
(*                      if incident["id"] == id: return incidents.pop(i)   *)
(***************************************************************************)
DeleteBegin(t, x) ==
    /\ TakesRequest(t)
    /\ ops' = ops + 1
    /\ loc' = [loc EXCEPT ![t] = [IdleLoc EXCEPT !.op = "delete", !.arg = x]]
    /\ pc' = [pc EXCEPT ![t] = "del_scan"]
    /\ UNCHANGED <<incidents, id_counter, id_lock, created, issued, deleted, resp, lst>>

\* one turn of the for loop over enumerate(incidents)
DelScan(t) ==
    /\ pc[t] = "del_scan"
    /\ IF loc[t].idx < Len(incidents)
       THEN LET inc == incidents[loc[t].idx + 1] IN
            /\ loc' = [loc EXCEPT ![t].idx = loc[t].idx + 1, ![t].i = loc[t].idx,
                                  ![t].cur = inc]
            /\ pc' = [pc EXCEPT ![t] = IF inc.id = loc[t].arg THEN "del_pop" ELSE "del_scan"]
            /\ UNCHANGED resp
       ELSE /\ resp' = NotFound("delete", loc[t].arg)
            /\ loc' = [loc EXCEPT ![t] = IdleLoc]
            /\ pc' = [pc EXCEPT ![t] = "idle"]
    /\ UNCHANGED <<incidents, id_counter, id_lock, created, issued, deleted, ops, lst>>

\* deleted_incident = incidents.pop(i), which raises IndexError when the
\* list has shrunk below i + 1 (500)
DelPop(t) ==
    /\ pc[t] = "del_pop"
    /\ IF loc[t].i < Len(incidents)
       THEN LET popped == incidents[loc[t].i + 1] IN
            /\ incidents' = PopAt(incidents, loc[t].i)
            /\ deleted' = deleted \cup {popped.id}
            /\ loc' = [loc EXCEPT ![t].cur = popped]
            /\ pc' = [pc EXCEPT ![t] = "del_return"]
            /\ UNCHANGED resp
       ELSE /\ resp' = ServerError("delete", loc[t].arg)
            /\ loc' = [loc EXCEPT ![t] = IdleLoc]
            /\ pc' = [pc EXCEPT ![t] = "idle"]
            /\ UNCHANGED <<incidents, deleted>>
    /\ UNCHANGED <<id_counter, id_lock, created, issued, ops, lst>>

\* return deleted_incident (200): the response is serialised from the dict
\* as it is once the handler has returned
DelReturn(t) ==
    /\ pc[t] = "del_return"
    /\ resp' = [op |-> "delete", arg |-> loc[t].arg, code |-> 200,
                body |-> <<ToIncident(loc[t].cur)>>]
    /\ loc' = [loc EXCEPT ![t] = IdleLoc]
    /\ pc' = [pc EXCEPT ![t] = "idle"]
    /\ UNCHANGED <<incidents, id_counter, id_lock, created, issued, deleted, ops, lst>>

(***************************************************************************)
(* get_incidents: filter by status and severity, then paginate             *)
(***************************************************************************)
\* i["status"].lower() == status.lower()
StatusMatches(i, status) == Lower(i.status) = Lower(status)

\* i["severity"].lower() == severity.lower()
SeverityMatches(i, severity) == Lower(i.severity) = Lower(severity)

\* the two list comprehensions, each run only when its parameter is truthy
FilteredIncidents(incs, status, severity) ==
    LET ByStatus(i) == StatusMatches(i, status[1])
        BySeverity(i) == SeverityMatches(i, severity[1])
        f1 == IF Truthy(status) THEN SelectSeq(incs, ByStatus) ELSE incs
    IN  IF Truthy(severity) THEN SelectSeq(f1, BySeverity) ELSE f1

\* per_page = min(per_page, 100)
EffectivePerPage(per_page) == Min(per_page, PageCap)

\* total_pages = (total + per_page - 1) // per_page, for per_page # 0
TotalPages(total, per_page) == FloorDiv(total + per_page - 1, per_page)

\* start = (page - 1) * per_page
PageStartFromZero(page, per_page) == page * per_page
PageStart(page, per_page) == (page - 1) * per_page

\* the response of get_incidents on the collection incs: the division raises
\* ZeroDivisionError when the effective per_page is 0 (500)
ListResponse(incs, status, severity, page, per_page) ==
    LET filtered == FilteredIncidents(incs, status, severity)
        total == Len(filtered)
        pp == EffectivePerPage(per_page)
        start == PageStart(page, pp)
        end == start + pp
        paginated == PySlice(filtered, start, end)
    IN  IF pp = 0
        THEN ServerError("list", 0)
        ELSE [op |-> "list", arg |-> 0, code |-> 200,
              body |-> << [incidents |-> [k \in 1..Len(paginated) |-> ToIncident(paginated[k])],
                           total |-> total,
                           page |-> page,
                           per_page |-> pp,
                           total_pages |-> TotalPages(total, pp)] >>]

\* get_incidents served in one step by the first worker thread, for the
\* specifications in which no other request is in flight
get_incidents(status, severity, page, per_page) ==
    /\ TakesRequest(1)
    /\ ops' = ops + 1
    /\ lst' = [status |-> status, severity |-> severity, page |-> page,
               per_page |-> per_page,
               filtered |-> FilteredIncidents(incidents, status, severity)]
    /\ resp' = ListResponse(incidents, status, severity, page, per_page)
    /\ UNCHANGED <<incidents, id_counter, id_lock, pc, loc, created, issued, deleted>>

(***************************************************************************)
(* get_incidents, statement by statement.  filtered_incidents names the    *)
(* collection itself (live) until a list comprehension has run; a          *)
(* comprehension iterates over the list that filtered_incidents names, one *)
(* element a turn.                                                         *)
(***************************************************************************)
\* the list that filtered_incidents names
Filtered(t) == IF loc[t].live THEN incidents ELSE loc[t].filtered

\* where get_incidents goes once the status filter is done with
AfterStatus(q) == IF Truthy(q.severity) THEN "list_severity" ELSE "list_total"

\* filtered_incidents = incidents
ListBegin(t, q) ==
    /\ TakesRequest(t)
    /\ ops' = ops + 1
    /\ loc' = [loc EXCEPT ![t] = [IdleLoc EXCEPT !.op = "list", !.q = q, !.live = TRUE]]
    /\ pc' = [pc EXCEPT ![t] = IF Truthy(q.status) THEN "list_status" ELSE AfterStatus(q)]
    /\ UNCHANGED <<incidents, id_counter, id_lock, created, issued, deleted, resp, lst>>

\* one turn of [i for i in filtered_incidents if i["status"].lower() == ...],
\* or its end, where filtered_incidents becomes the list it has built
ListStatusScan(t) ==
    /\ pc[t] = "list_status"
    /\ IF loc[t].idx < Len(Filtered(t))
       THEN LET inc == Filtered(t)[loc[t].idx + 1] IN
            /\ loc' = [loc EXCEPT ![t].idx = loc[t].idx + 1,
                                  ![t].acc = IF StatusMatches(inc, loc[t].q.status[1])
                                             THEN Append(loc[t].acc, inc) ELSE loc[t].acc]
            /\ UNCHANGED pc
       ELSE /\ loc' = [loc EXCEPT ![t].filtered = loc[t].acc, ![t].live = FALSE,
                                  ![t].idx = 0, ![t].acc = <<>>]
            /\ pc' = [pc EXCEPT ![t] = AfterStatus(loc[t].q)]
    /\ UNCHANGED <<incidents, id_counter, id_lock, created, issued, deleted, ops, resp, lst>>

\* one turn of [i for i in filtered_incidents if i["severity"].lower() == ...],
\* or its end
ListSeverityScan(t) ==
    /\ pc[t] = "list_severity"
    /\ IF loc[t].idx < Len(Filtered(t))
       THEN LET inc == Filtered(t)[loc[t].idx + 1] IN
            /\ loc' = [loc EXCEPT ![t].idx = loc[t].idx + 1,
                                  ![t].acc = IF SeverityMatches(inc, loc[t].q.severity[1])
                                             THEN Append(loc[t].acc, inc) ELSE loc[t].acc]
            /\ UNCHANGED pc
       ELSE /\ loc' = [loc EXCEPT ![t].filtered = loc[t].acc, ![t].live = FALSE,
                                  ![t].idx = 0, ![t].acc = <<>>]
            /\ pc' = [pc EXCEPT ![t] = "list_total"]
    /\ UNCHANGED <<incidents, id_counter, id_lock, created, issued, deleted, ops, resp, lst>>

\* total = len(filtered_incidents); per_page = min(per_page, 100);
\* total_pages = (total + per_page - 1) // per_page, which raises
\* ZeroDivisionError when per_page is 0 (500)
ListTotal(t) ==
    /\ pc[t] = "list_total"
    /\ IF EffectivePerPage(loc[t].q.per_page) = 0
       THEN /\ resp' = ServerError("list", 0)
            /\ loc' = [loc EXCEPT ![t] = IdleLoc]
            /\ pc' = [pc EXCEPT ![t] = "idle"]
       ELSE /\ loc' = [loc EXCEPT ![t].total = Len(Filtered(t))]
            /\ pc' = [pc EXCEPT ![t] = "list_page"]
            /\ UNCHANGED resp
    /\ UNCHANGED <<incidents, id_counter, id_lock, created, issued, deleted, ops, lst>>

\* paginated_incidents = filtered_incidents[start:end]: a new list of the
\* same dicts
ListPage(t) ==
    /\ pc[t] = "list_page"
    /\ LET pp == EffectivePerPage(loc[t].q.per_page)
           start == PageStart(loc[t].q.page, pp)
       IN  loc' = [loc EXCEPT ![t].paginated = PySlice(Filtered(t), start, start + pp)]
    /\ pc' = [pc EXCEPT ![t] = "list_build"]
    /\ UNCHANGED <<incidents, id_counter, id_lock, created, issued, deleted, ops, resp, lst>>

\* return PaginatedResponse(incidents=paginated_incidents, ...) (200): the
\* Incident models are built from the dicts as they are now
ListBuild(t) ==
    /\ pc[t] = "list_build"
    /\ LET pp == EffectivePerPage(loc[t].q.per_page)
           paginated == loc[t].paginated
       IN  resp' = [op |-> "list", arg |-> 0, code |-> 200,
                    body |-> << [incidents |-> [k \in 1..Len(paginated) |->
                                                  ToIncident(paginated[k])],
                                 total |-> loc[t].total,
                                 page |-> loc[t].q.page,
                                 per_page |-> pp,
                                 total_pages |-> TotalPages(loc[t].total, pp)] >>]
    /\ loc' = [loc EXCEPT ![t] = IdleLoc]
    /\ pc' = [pc EXCEPT ![t] = "idle"]
    /\ UNCHANGED <<incidents, id_counter, id_lock, created, issued, deleted, ops, lst>>

(***************************************************************************)
(* get_incident: for incident in incidents:                                *)
(*                   if incident["id"] == id: return incident              *)
(***************************************************************************)
GetBegin(t, x) ==
    /\ TakesRequest(t)
    /\ ops' = ops + 1
    /\ loc' = [loc EXCEPT ![t] = [IdleLoc EXCEPT !.op = "get", !.arg = x]]
    /\ pc' = [pc EXCEPT ![t] = "get_scan"]
    /\ UNCHANGED <<incidents, id_counter, id_lock, created, issued, deleted, resp, lst>>

\* one turn of the for loop: the iterator yields incidents[idx], whose id
\* is compared with incident_id, or is exhausted (404)
GetScan(t) ==
    /\ pc[t] = "get_scan"
    /\ IF loc[t].idx < Len(incidents)
       THEN LET inc == incidents[loc[t].idx + 1] IN
            /\ loc' = [loc EXCEPT ![t].idx = loc[t].idx + 1, ![t].cur = inc]
            /\ pc' = [pc EXCEPT ![t] = IF inc.id = loc[t].arg THEN "get_return" ELSE "get_scan"]
            /\ UNCHANGED resp
       ELSE /\ resp' = NotFound("get", loc[t].arg)
            /\ loc' = [loc EXCEPT ![t] = IdleLoc]
            /\ pc' = [pc EXCEPT ![t] = "idle"]
    /\ UNCHANGED <<incidents, id_counter, id_lock, created, issued, deleted, ops, lst>>

\* return incident (200): the response is serialised from the dict as it is
\* once the handler has returned
GetReturn(t) ==
    /\ pc[t] = "get_return"
    /\ resp' = [op |-> "get", arg |-> loc[t].arg, code |-> 200,
                body |-> <<ToIncident(loc[t].cur)>>]
    /\ loc' = [loc EXCEPT ![t] = IdleLoc]
    /\ pc' = [pc EXCEPT ![t] = "idle"]
    /\ UNCHANGED <<incidents, id_counter, id_lock, created, issued, deleted, ops, lst>>

(***************************************************************************)
(* Request bodies as they arrive: a field is absent (None) or carries a    *)
(* text.  The body of a POST is validated against IncidentCreate and the   *)
(* body of a PATCH against IncidentUpdate before the handler runs; a body  *)
(* that lacks a required field is answered 422 and the handler never runs. *)
(***************************************************************************)
\* IncidentCreate: title and severity are required (Field(...)), any str passes
ValidCreateTitleOnly(raw) == raw.title # None
ValidCreate(raw) == raw.title # None /\ raw.severity # None

\* the validated IncidentCreate fields, as CreateBegin takes them
ParseCreate(raw) ==
    [title |-> IF raw.title = None THEN "" ELSE raw.title[1],
     status |-> raw.status,
     severity |-> IF raw.severity = None THEN <<>> ELSE raw.severity[1]]

\* IncidentUpdate: status is required (Field(...)), any str passes
ValidUpdate(raw) == raw.status # None

ParseUpdate(raw) == [status |-> IF raw.status = None THEN <<>> ELSE raw.status[1]]

ValidationError(op, x) == [op |-> op, arg |-> x, code |-> 422, body |-> <<>>]

\* POST /incidents with a body that fails validation
CreateRejected(t, raw) ==
    /\ TakesRequest(t)
    /\ ~ValidCreate(raw)
    /\ ops' = ops + 1
    /\ resp' = ValidationError("create", 0)
    /\ UNCHANGED <<incidents, id_counter, id_lock, pc, loc, created, issued, deleted, lst>>

\* POST /incidents with a body that passes validation
CreateAccepted(t, raw) ==
    /\ ValidCreate(raw)
    /\ CreateBegin(t, ParseCreate(raw))

\* PATCH /incidents/{x} with a body that fails validation
UpdateRejected(t, x, raw) ==
    /\ TakesRequest(t)
    /\ ~ValidUpdate(raw)
    /\ ops' = ops + 1
    /\ resp' = ValidationError("update", x)
    /\ UNCHANGED <<incidents, id_counter, id_lock, pc, loc, created, issued, deleted, lst>>

\* PATCH /incidents/{x} with a body that passes validation
UpdateAccepted(t, x, raw) ==
    /\ ValidUpdate(raw)
    /\ UpdateBegin(t, x, ParseUpdate(raw))

(***************************************************************************)
(* verify_token: every handler depends on it, and it on                    *)
(* security = HTTPBearer(auto_error=False).  h is the Authorization header *)
(* of the request: None, or a scheme and the credentials after it.         *)
(***************************************************************************)
s_bearer == <<98, 101, 97, 114, 101, 114>>
s_Bearer == <<66, 101, 97, 114, 101, 114>>
s_InvalidFormat == <<73, 110, 118, 97, 108, 105, 100, 70, 111, 114, 109, 97, 116>>

\* the headers of TestAuthentication: none, "InvalidFormat", a Bearer token
\* that VALID_TOKENS does not hold, and the demo token
AuthHeaders ==
    { None,
      Some([scheme |-> s_InvalidFormat, credentials |-> ""]),
      Some([scheme |-> s_Bearer, credentials |-> "invalid-token"]),
      Some([scheme |-> s_Bearer, credentials |-> "demo-token-123"]) }

VALID_TOKENS == [token \in {"demo-token-123"} |-> "demo_user"]

\* HTTPBearer finds no bearer credentials in the header
NoCredentials(h) ==
    \/ h = None
    \/ h[1].credentials = ""
    \/ Lower(h[1].scheme) # s_bearer

\* HTTPBearer(auto_error=False)
AutoErrorOn == TRUE
AutoError == FALSE

\* with auto_error, HTTPBearer raises the 403 where it finds no credentials
SecurityRaises(h) == AutoError /\ NoCredentials(h)

\* security(request): the credentials, or None where it finds none
security(h) == IF NoCredentials(h) THEN None ELSE Some(h[1].credentials)

\* if not credentials: return None; return VALID_TOKENS.get(token)
verify_token(credentials) ==
    IF credentials = None THEN None
    ELSE IF credentials[1] \in DOMAIN VALID_TOKENS
         THEN Some(VALID_TOKENS[credentials[1]])
         ELSE None

Forbidden(op, x) == [op |-> op, arg |-> x, code |-> 403, body |-> <<>>]

\* the dependency raised: the request is answered 403 and no handler runs
Refused(t, op, x) ==
    /\ TakesRequest(t)
    /\ ops' = ops + 1
    /\ resp' = Forbidden(op, x)
    /\ UNCHANGED <<incidents, id_counter, id_lock, pc, loc, created, issued, deleted, lst>>

\* hist is left alone: Spec keeps no history of the calls
Next ==
    \E t \in Threads :
        \/ (\E body \in CreateBodies : CreateBegin(t, body)) /\ UNCHANGED hist
        \/ GniAcquire(t) /\ UNCHANGED hist
        \/ GniLoad(t) /\ UNCHANGED hist
        \/ GniStore(t) /\ UNCHANGED hist
        \/ GniReturn(t) /\ UNCHANGED hist
        \/ CreateAppend(t) /\ UNCHANGED hist
        \/ CreateReturn(t) /\ UNCHANGED hist
        \/ (\E x \in UpdateArgs, body \in UpdateBodies : UpdateBegin(t, x, body))
              /\ UNCHANGED hist
        \/ UpdScan(t) /\ UNCHANGED hist
        \/ UpdWrite(t) /\ UNCHANGED hist
        \/ UpdReturn(t) /\ UNCHANGED hist
        \/ (\E x \in IdArgs : DeleteBegin(t, x)) /\ UNCHANGED hist
        \/ DelScan(t) /\ UNCHANGED hist
        \/ DelPop(t) /\ UNCHANGED hist
        \/ DelReturn(t) /\ UNCHANGED hist

Spec == Init /\ [][Next]_vars

(***************************************************************************)
(* SpecList: get_incidents applied to a store.  The stores are the seed    *)
(* store, the stores left when the seeds are deleted and up to MaxStore    *)
(* incidents of varied status and severity are created, large stores of    *)
(* more than PageCap incidents, and a store of statuses past ASCII.        *)
(***************************************************************************)
Kinds == { <<s_open, s_high>>, <<s_OPEN, s_low>>, <<s_closed, s_HIGH>> }

CreatedIncident(id, kind) == MkIncident(id, "T", kind[1], kind[2], id)

VariedStores ==
    UNION { { [k \in 1..n |-> CreatedIncident(SeedCounter + k, f[k])] : f \in [1..n -> Kinds] }
            : n \in 0..MaxStore }

\* the seeds followed by created incidents, n incidents in all
LargeStore(n) ==
    [k \in 1..n |-> IF k <= Len(SeedIncidents) THEN SeedIncidents[k]
                    ELSE CreatedIncident(k, <<s_open, s_high>>)]

LargeStores == { LargeStore(PageCap + n) : n \in 1..BigExtra }

\* statuses past ASCII: capital sigma, final sigma, capital alpha and
\* capital sigma, small alpha and small sigma, sharp s
CasedStatuses == << <<931>>, <<962>>, <<913, 931>>, <<945, 963>>, <<223>> >>

\* the store left when the seeds are deleted and one incident of each of
\* these statuses is created
CasedStore ==
    [k \in 1..Len(CasedStatuses) |->
        CreatedIncident(SeedCounter + k, <<CasedStatuses[k], s_high>>)]

ListStores == {SeedIncidents} \cup VariedStores \cup LargeStores \cup {CasedStore}

MaxId(s) == IF s = <<>> THEN SeedCounter ELSE s[Len(s)].id

\* no status, the empty text, three ASCII texts, and small sigma, alpha and
\* final sigma, and "SS"
StatusArgs ==
    { None, Some(s_empty), Some(s_open), Some(s_Open), Some(s_closed),
      Some(<<963>>), Some(<<945, 962>>), Some(<<83, 83>>) }
SeverityArgs == { None, Some(s_empty), Some(s_HIGH), Some(s_low) }
PageArgs == { -1, 0, 1, 2, 3 }
PerPageArgs == { -2, -1, 0, 1, 2, 10, 100, 101, 1000 }

InitList ==
    /\ incidents \in ListStores
    /\ id_counter = MaxId(incidents)
    /\ id_lock = 0
    /\ pc = [t \in Threads |-> "idle"]
    /\ loc = [t \in Threads |-> IdleLoc]
    /\ created = <<>>
    /\ issued = {}
    /\ deleted = {}
    /\ ops = 0
    /\ resp = NoResp
    /\ lst = NoList
    /\ hist = NoHist

\* a behaviour of SpecList is one list request on the store it starts from
\* (ops = 0); the requests that follow other calls are those of SpecSeq
NextList ==
    \E status \in StatusArgs, severity \in SeverityArgs,
       page \in PageArgs, per_page \in PerPageArgs :
        ops = 0 /\ get_incidents(status, severity, page, per_page) /\ UNCHANGED hist

SpecList == InitList /\ [][NextList]_vars

(***************************************************************************)
(* SpecSeq: one client that sends its requests one after the other, each   *)
(* to completion, with request bodies as they arrive (fields absent, empty *)
(* or filled) and any Authorization header.  hist records the request,     *)
(* the user verify_token hands to the handler and the store at the start   *)
(* of the call, the creates that returned and the ids update_incident      *)
(* wrote.                                                                  *)
(***************************************************************************)
\* the POST bodies: TestCreateIncident's minimal, complete and invalid bodies,
\* and a body whose three texts are empty
RawCreateBodies ==
    { [title |-> Some("lateral movement detected"), status |-> None, severity |-> Some(s_high)],
      [title |-> Some("T"), status |-> Some(s_closed), severity |-> Some(s_low)],
      [title |-> Some(""), status |-> Some(s_empty), severity |-> Some(s_empty)],
      [title |-> None, status |-> None, severity |-> Some(s_high)],
      [title |-> Some("T"), status |-> None, severity |-> None] }

\* the PATCH bodies: {}, {"status": ""} and {"status": "closed"}
RawUpdateBodies ==
    { [status |-> None], [status |-> Some(s_empty)], [status |-> Some(s_closed)] }

\* incident_id path parameters: two seeded ids and the first id to be allocated
SeqIdArgs == {1, 2, 4}

\* the query parameters of a list request: the defaults of TestAuthentication
\* and a status filter with per_page = 0
ListQueries ==
    { [status |-> None, severity |-> None, page |-> 1, per_page |-> 10],
      [status |-> Some(s_open), severity |-> None, page |-> 1, per_page |-> 0] }

\* the thread that serves the only client
Caller == 1

Store == [incidents |-> incidents, id_counter |-> id_counter]

Called(op, x, raw, h) ==
    [hist EXCEPT !.pre = Store,
                 !.req = [op |-> op, arg |-> x, body |-> raw,
                          user |-> verify_token(security(h))]]

SeqCreate(raw, h) ==
    /\ IF SecurityRaises(h)
       THEN Refused(Caller, "create", 0)
       ELSE CreateAccepted(Caller, raw) \/ CreateRejected(Caller, raw)
    /\ hist' = Called("create", 0, raw, h)

SeqUpdate(x, raw, h) ==
    /\ IF SecurityRaises(h)
       THEN Refused(Caller, "update", x)
       ELSE UpdateAccepted(Caller, x, raw) \/ UpdateRejected(Caller, x, raw)
    /\ hist' = Called("update", x, raw, h)

SeqDelete(x, h) ==
    /\ IF SecurityRaises(h)
       THEN Refused(Caller, "delete", x)
       ELSE DeleteBegin(Caller, x)
    /\ hist' = Called("delete", x, <<>>, h)

SeqList(q, h) ==
    /\ IF SecurityRaises(h)
       THEN Refused(Caller, "list", 0)
       ELSE get_incidents(q.status, q.severity, q.page, q.per_page)
    /\ hist' = Called("list", 0, q, h)

SeqGet(x, h) ==
    /\ IF SecurityRaises(h)
       THEN Refused(Caller, "get", x)
       ELSE GetBegin(Caller, x)
    /\ hist' = Called("get", x, <<>>, h)

\* create_incident returns: hist keeps the request body and the record returned
LogCreateReturn(t) ==
    /\ CreateReturn(t)
    /\ hist' = [hist EXCEPT !.made = @ \cup { [id |-> loc[t].cur.id,
                                               req |-> hist.req.body,
                                               body |-> ToIncident(loc[t].cur)] }]

\* update_incident writes: hist keeps the id of the incident written
LogUpdWrite(t) ==
    /\ UpdWrite(t)
    /\ hist' = [hist EXCEPT !.updated = @ \cup {loc[t].cur.id}]

\* the call of thread t returns with resp': hist keeps its answer next to what
\* had happened when it began
Returned(h, t) ==
    [h EXCEPT !.done = [hist.began[t] EXCEPT !.code = resp'.code, !.body = resp'.body],
              !.began[t] = NoCall]

\* delete_incident scans; it returns when the iterator is exhausted
LogDelScan(t) ==
    /\ DelScan(t)
    /\ hist' = IF pc'[t] = "idle" THEN Returned(hist, t) ELSE hist

\* delete_incident pops; it returns when the pop raises
LogDelPop(t) ==
    /\ DelPop(t)
    /\ hist' = IF pc'[t] = "idle" THEN Returned(hist, t) ELSE hist

\* delete_incident returns: hist keeps the incident_id of a delete answered 200
LogDelReturn(t) ==
    /\ DelReturn(t)
    /\ hist' = Returned([hist EXCEPT !.delOk = @ \cup {loc[t].arg}], t)

\* get_incident scans; it returns when the iterator is exhausted
LogGetScan(t) ==
    /\ GetScan(t)
    /\ hist' = IF pc'[t] = "idle" THEN Returned(hist, t) ELSE hist

\* get_incident returns the incident it found
LogGetReturn(t) ==
    /\ GetReturn(t)
    /\ hist' = Returned(hist, t)

SeqNext ==
    \/ \E raw \in RawCreateBodies, h \in AuthHeaders : SeqCreate(raw, h)
    \/ \E x \in SeqIdArgs, raw \in RawUpdateBodies, h \in AuthHeaders : SeqUpdate(x, raw, h)
    \/ \E x \in SeqIdArgs, h \in AuthHeaders : SeqDelete(x, h)
    \/ \E x \in SeqIdArgs, h \in AuthHeaders : SeqGet(x, h)
    \/ \E q \in ListQueries, h \in AuthHeaders : SeqList(q, h)
    \/ GniAcquire(Caller) /\ UNCHANGED hist
    \/ GniLoad(Caller) /\ UNCHANGED hist
    \/ GniStore(Caller) /\ UNCHANGED hist
    \/ GniReturn(Caller) /\ UNCHANGED hist
    \/ CreateAppend(Caller) /\ UNCHANGED hist
    \/ LogCreateReturn(Caller)
    \/ UpdScan(Caller) /\ UNCHANGED hist
    \/ LogUpdWrite(Caller)
    \/ UpdReturn(Caller) /\ UNCHANGED hist
    \/ DelScan(Caller) /\ UNCHANGED hist
    \/ LogDelPop(Caller)
    \/ LogDelReturn(Caller)
    \/ GetScan(Caller) /\ UNCHANGED hist
    \/ GetReturn(Caller) /\ UNCHANGED hist

SpecSeq == Init /\ [][SeqNext]_vars

(***************************************************************************)
(* SpecRace: create_incident, delete_incident and get_incident served by   *)
(* the worker threads at once.  hist records, for the last get_incident or *)
(* delete_incident that returned, its answer, the creates that had         *)
(* returned and the deletes that had been answered 200 when it began.      *)
(***************************************************************************)
\* the POST body of SpecRace: the minimal one, title and severity only
RaceCreateBodies == { raw \in RawCreateBodies : ValidCreate(raw) /\ raw.status = None }

\* incident_id of the deletes: the first two seeded ids
RaceDeleteArgs == {1, 2}

\* incident_id of the gets: a seeded id that a delete names and the first id
\* to be allocated
RaceGetArgs == {2, 4}

MadeIds == { m.id : m \in hist.made }

RaceCreate(t, raw) ==
    /\ CreateAccepted(t, raw)
    /\ UNCHANGED hist

\* the call of thread u is a delete_incident of x still being served
DeletesSame(u, x) == hist.began[u].op = "delete" /\ hist.began[u].arg = x

\* thread t begins a call: hist keeps the creates that have returned and the
\* deletes that have been answered 200, and whether a delete of x overlaps
\* with another delete of the same x
Began(op, t, x) ==
    [hist EXCEPT !.began =
        [u \in Threads |->
            IF u = t
            THEN [NoCall EXCEPT !.op = op, !.arg = x, !.made = MadeIds,
                                !.delOk = hist.delOk,
                                !.alone = ~(op = "delete" /\ \E v \in Threads \ {t} :
                                                                DeletesSame(v, x))]
            ELSE IF op = "delete" /\ DeletesSame(u, x)
                 THEN [hist.began[u] EXCEPT !.alone = FALSE]
                 ELSE hist.began[u]]]

RaceGet(t, x) ==
    /\ GetBegin(t, x)
    /\ hist' = Began("get", t, x)

RaceDelete(t, x) ==
    /\ DeleteBegin(t, x)
    /\ hist' = Began("delete", t, x)

RaceNext ==
    \E t \in Threads :
        \/ \E raw \in RaceCreateBodies : RaceCreate(t, raw)
        \/ GniAcquire(t) /\ UNCHANGED hist
        \/ GniLoad(t) /\ UNCHANGED hist
        \/ GniStore(t) /\ UNCHANGED hist
        \/ GniReturn(t) /\ UNCHANGED hist
        \/ CreateAppend(t) /\ UNCHANGED hist
        \/ LogCreateReturn(t)
        \/ \E x \in RaceDeleteArgs : RaceDelete(t, x)
        \/ LogDelScan(t)
        \/ LogDelPop(t)
        \/ LogDelReturn(t)
        \/ \E x \in RaceGetArgs : RaceGet(t, x)
        \/ LogGetScan(t)
        \/ LogGetReturn(t)

SpecRace == Init /\ [][RaceNext]_vars

(***************************************************************************)
(* Properties of create, get, update and delete.  SpecSeq carries the      *)
(* ones about one call at a time, SpecRace and Spec the ones about calls   *)
(* that overlap.                                                           *)
(***************************************************************************)
\* the record create_incident answers to the body raw with the id given
Answer(id, raw) ==
    [id |-> id, title |-> raw.title[1],
     status |-> IF raw.status = None THEN s_open ELSE raw.status[1],
     severity |-> raw.severity[1]]

\* C11: a get_incident of an id that a create_incident had returned before
\* the get began, the incident of that id not having been removed or
\* rewritten since, answers 200 with the record that the create returned:
\* that id, the title and the severity of the request, and its status, or
\* "open" when the request carried none.
C11_RoundTrip ==
    \A m \in hist.made :
        (/\ hist.done.op = "get"
         /\ hist.done.arg = m.id
         /\ m.id \in hist.done.made
         /\ m.id \notin deleted
         /\ m.id \notin hist.updated)
        => /\ hist.done.code = 200
           /\ hist.done.body = <<m.body>>
           /\ \A raw \in RaceCreateBodies : m.body = Answer(m.id, raw)

\* C12: a get_incident or a delete_incident of an id x that begins after a
\* delete_incident of x has been answered 200 is answered 404, whatever was
\* served in between.
C12_DeleteIsPermanent ==
    hist.done.arg \in hist.done.delOk => hist.done.code = 404

\* the call of the only client has returned: resp answers hist.req, and
\* hist.pre is the store as the call found it
CallReturned == pc[Caller] = "idle" /\ hist.req.op # "none"

\* the request lacks a field that its body must carry
MissingField(req) ==
    \/ req.op = "create" /\ (req.body.title = None \/ req.body.severity = None)
    \/ req.op = "update" /\ req.body.status = None

\* the request names an incident that the collection does not hold
AbsentId(req, incs) ==
    req.op \in {"get", "update", "delete"} /\ req.arg \notin Ids(incs)

\* C13: a call that fails leaves the store as it found it.  A get, update or
\* delete of an id that the collection does not hold is answered 404 (422
\* when the body of the update lacks its status), a create or update whose
\* body lacks a required field is answered 422, and after a call answered
\* 404 or 422 the collection, contents and order, and the id counter are
\* what they were when the call began.
C13_FailedLeavesStore ==
    CallReturned =>
        /\ AbsentId(hist.req, hist.pre.incidents) /\ ~MissingField(hist.req)
              => resp.code = 404
        /\ MissingField(hist.req) => resp.code = 422
        /\ resp.code \in {404, 422} => Store = hist.pre

\* an incident has been created and one deleted, and a delete of the id
\* that is gone has been answered 404
C13_Witness ==
    /\ CallReturned
    /\ hist.req.op = "delete"
    /\ hist.req.arg \in deleted
    /\ resp.code = 404
    /\ hist.made # {}
    /\ Store = hist.pre

\* what a client can see of a store: the records as the API serialises
\* them, in order, and the counter
Visible(store) ==
    [incidents |-> [k \in 1..Len(store.incidents) |-> ToIncident(store.incidents[k])],
     id_counter |-> store.id_counter]

\* the index of the first incident of id x, 0 when there is none
FirstIndex(incs, x) ==
    IF x \in Ids(incs) THEN CHOOSE k \in 1..Len(incs) :
                               incs[k].id = x /\ \A j \in 1..(k - 1) : incs[j].id # x
    ELSE 0

\* the outcome of serving req, sent with the Authorization header h, to
\* completion on the store pre: the store it leaves and its response
Served(pre, req, h) ==
    LET incs == pre.incidents
        k == FirstIndex(incs, req.arg)
        Failed(r) == [store |-> Visible(pre), resp |-> r]
        d == IncidentCreate(ParseCreate(req.body))
        new == [id |-> pre.id_counter + 1, title |-> d.title, status |-> d.status,
                severity |-> d.severity]
        written == [ToIncident(incs[k]) EXCEPT !.status = ParseUpdate(req.body).status]
    IN  IF SecurityRaises(h) THEN Failed(Forbidden(req.op, req.arg))
        ELSE CASE req.op = "create" ->
                    IF ~ValidCreate(req.body) THEN Failed(ValidationError("create", 0))
                    ELSE [store |-> [incidents |-> Append(Visible(pre).incidents, new),
                                     id_counter |-> pre.id_counter + 1],
                          resp |-> [op |-> "create", arg |-> 0, code |-> 201,
                                    body |-> <<new>>]]
               [] req.op = "update" ->
                    IF ~ValidUpdate(req.body) THEN Failed(ValidationError("update", req.arg))
                    ELSE IF k = 0 THEN Failed(NotFound("update", req.arg))
                    ELSE [store |-> [Visible(pre) EXCEPT !.incidents[k] = written],
                          resp |-> [op |-> "update", arg |-> req.arg, code |-> 200,
                                    body |-> <<written>>]]
               [] req.op = "delete" ->
                    IF k = 0 THEN Failed(NotFound("delete", req.arg))
                    ELSE [store |-> [Visible(pre) EXCEPT
                                       !.incidents = PopAt(Visible(pre).incidents, k - 1)],
                          resp |-> [op |-> "delete", arg |-> req.arg, code |-> 200,
                                    body |-> <<ToIncident(incs[k])>>]]
               [] req.op = "list" ->
                    Failed(ListResponse(incs, req.body.status, req.body.severity,
                                        req.body.page, req.body.per_page))
               [] req.op = "get" ->
                    IF k = 0 THEN Failed(NotFound("get", req.arg))
                    ELSE Failed([op |-> "get", arg |-> req.arg, code |-> 200,
                                 body |-> <<ToIncident(incs[k])>>])

\* C14: the credential of a request has no influence.  Whatever the header
\* a call was sent with (none, malformed, a token that is not valid, the
\* valid token), the response it got and the store it left are the ones
\* the same request gets on the same store with each of the other headers;
\* so two runs of the same requests from the same store that differ only in
\* the credentials agree on every response and on every store.
C14_AuthHasNoInfluence ==
    CallReturned =>
        \A h \in AuthHeaders :
            Served(hist.pre, hist.req, h) = [store |-> Visible(Store), resp |-> resp]

\* a delete sent without a valid token has removed an incident that a
\* create had stored
C14_Witness ==
    /\ CallReturned
    /\ hist.req.op = "delete"
    /\ hist.req.user = None
    /\ resp.code = 200
    /\ hist.req.arg \in MadeIds

\* the request carries an empty text where the incident takes its title,
\* status or severity from
EmptyField(req) ==
    \/ req.op = "create" /\ (\/ req.body.title = Some("")
                              \/ req.body.status = Some(s_empty)
                              \/ req.body.severity = Some(s_empty))
    \/ req.op = "update" /\ req.body.status = Some(s_empty)

\* C15: every incident in the collection has a non-empty title, a non-empty
\* status and a non-empty severity, and a create with an empty title, status
\* or severity, or an update with an empty status, is rejected and leaves
\* the store as it was.
C15_NonEmptyFields ==
    /\ \A k \in 1..Len(incidents) :
           /\ incidents[k].title # ""
           /\ incidents[k].status # s_empty
           /\ incidents[k].severity # s_empty
    /\ CallReturned /\ EmptyField(hist.req) => resp.code = 422 /\ Store = hist.pre

\* C16: whatever deletes of other ids and creates run at the same time, a
\* delete_incident of x is answered 200 or 404, never 500 for an index that
\* no longer exists, and the incident that a delete answered 200 has
\* removed and returned is the one of id x.
C16_DeleteExact ==
    hist.done.op = "delete" /\ hist.done.alone =>
        /\ hist.done.code \in {200, 404}
        /\ hist.done.code = 200 => hist.done.body[1].id = hist.done.arg

(***************************************************************************)
(* SpecScan: one get_incidents, served statement by statement, while the   *)
(* other worker threads serve create_incident and delete_incident.  hist   *)
(* records every value the collection takes between the start of the list  *)
(* call and its return.                                                    *)
(***************************************************************************)
\* the list requests of SpecScan: the defaults, the status filter "closed",
\* the severity filter "low", and per_page = 0
ScanQueries ==
    { [status |-> None, severity |-> None, page |-> 1, per_page |-> 10],
      [status |-> Some(s_closed), severity |-> None, page |-> 1, per_page |-> 10],
      [status |-> None, severity |-> Some(s_low), page |-> 1, per_page |-> 10],
      [status |-> None, severity |-> None, page |-> 1, per_page |-> 0] }

\* incident_id of the deletes: the first seeded id
ScanDeleteArgs == {1}

ListInFlight == \E t \in Threads : loc[t].op = "list"

\* the collection changes: hist keeps its new value while the list call runs
Snapped == IF ListInFlight THEN [hist EXCEPT !.snaps = @ \cup {incidents'}] ELSE hist

\* the one list request of a behaviour of SpecScan
ScanList(t, q) ==
    /\ hist.snaps = {}
    /\ ListBegin(t, q)
    /\ hist' = [hist EXCEPT !.snaps = {incidents},
                            !.began[t] = [NoCall EXCEPT !.op = "list", !.q = q]]

ScanListTotal(t) ==
    /\ ListTotal(t)
    /\ hist' = IF pc'[t] = "idle" THEN Returned(hist, t) ELSE hist

ScanListBuild(t) ==
    /\ ListBuild(t)
    /\ hist' = Returned(hist, t)

ScanCreateAppend(t) ==
    /\ CreateAppend(t)
    /\ hist' = Snapped

ScanDelPop(t) ==
    /\ DelPop(t)
    /\ hist' = Snapped

ScanNext ==
    \E t \in Threads :
        \/ \E q \in ScanQueries : ScanList(t, q)
        \/ ListStatusScan(t) /\ UNCHANGED hist
        \/ ListSeverityScan(t) /\ UNCHANGED hist
        \/ ScanListTotal(t)
        \/ ListPage(t) /\ UNCHANGED hist
        \/ ScanListBuild(t)
        \/ (\E body \in CreateBodies : CreateBegin(t, body)) /\ UNCHANGED hist
        \/ GniAcquire(t) /\ UNCHANGED hist
        \/ GniLoad(t) /\ UNCHANGED hist
        \/ GniStore(t) /\ UNCHANGED hist
        \/ GniReturn(t) /\ UNCHANGED hist
        \/ ScanCreateAppend(t)
        \/ CreateReturn(t) /\ UNCHANGED hist
        \/ (\E x \in ScanDeleteArgs : DeleteBegin(t, x)) /\ UNCHANGED hist
        \/ DelScan(t) /\ UNCHANGED hist
        \/ ScanDelPop(t)
        \/ DelReturn(t) /\ UNCHANGED hist

SpecScan == Init /\ [][ScanNext]_vars

(***************************************************************************)
(* SpecLive: creates, updates, deletes and lists served step by step by    *)
(* the worker threads, each thread that has a request being scheduled      *)
(* again and again (weak fairness on its statements; the arrival of        *)
(* requests is not forced).  threading.Lock promises no order among the    *)
(* waiting threads, so no strong fairness is assumed for the acquire.      *)
(***************************************************************************)
\* the list requests: both filters with a page to cut, and per_page = 0
LiveQueries ==
    { [status |-> Some(s_closed), severity |-> Some(s_medium), page |-> 1, per_page |-> 10],
      [status |-> None, severity |-> None, page |-> 1, per_page |-> 0] }

\* incident_id of the updates and of the deletes
LiveUpdateArgs == {2}
LiveDeleteArgs == {1}

\* as many calls as there are worker threads arrive, so that every thread
\* can have one in flight at the same time
LiveCalls == NumThreads

\* a request arrives at thread t
LiveBegin(t) ==
    \/ ops < LiveCalls /\ (\E body \in CreateBodies : CreateBegin(t, body))
          /\ UNCHANGED hist
    \/ ops < LiveCalls
          /\ (\E x \in LiveUpdateArgs, body \in UpdateBodies : UpdateBegin(t, x, body))
          /\ UNCHANGED hist
    \/ ops < LiveCalls /\ (\E x \in LiveDeleteArgs : DeleteBegin(t, x))
          /\ UNCHANGED hist
    \/ ops < LiveCalls /\ (\E q \in LiveQueries : ListBegin(t, q))
          /\ UNCHANGED hist

\* thread t executes the next statement of the handler it is in
Run(t) ==
    \/ GniAcquire(t) /\ UNCHANGED hist
    \/ GniLoad(t) /\ UNCHANGED hist
    \/ GniStore(t) /\ UNCHANGED hist
    \/ GniReturn(t) /\ UNCHANGED hist
    \/ CreateAppend(t) /\ UNCHANGED hist
    \/ CreateReturn(t) /\ UNCHANGED hist
    \/ UpdScan(t) /\ UNCHANGED hist
    \/ UpdWrite(t) /\ UNCHANGED hist
    \/ UpdReturn(t) /\ UNCHANGED hist
    \/ DelScan(t) /\ UNCHANGED hist
    \/ DelPop(t) /\ UNCHANGED hist
    \/ DelReturn(t) /\ UNCHANGED hist
    \/ ListStatusScan(t) /\ UNCHANGED hist
    \/ ListSeverityScan(t) /\ UNCHANGED hist
    \/ ListTotal(t) /\ UNCHANGED hist
    \/ ListPage(t) /\ UNCHANGED hist
    \/ ListBuild(t) /\ UNCHANGED hist

LiveNext ==
    \E t \in Threads :
        \/ LiveBegin(t)
        \/ Run(t)

\* the scheduler runs every thread that can take a step
Fairness == \A t \in Threads : WF_vars(Run(t))

SpecLive == Init /\ [][LiveNext]_vars /\ Fairness

\* C20: a delete_incident of x answered 200, served with no other request
\* in flight, leaves the collection it found with the incident of id x taken
\* out: the other incidents are unchanged and in the same order, the
\* collection is shorter by exactly one, and the id counter is unchanged.
C20_DeleteRemovesOne ==
    CallReturned /\ hist.req.op = "delete" /\ resp.code = 200 =>
        LET x == hist.req.arg
            before == hist.pre.incidents
        IN  /\ x \in Ids(before)
            /\ incidents = SelectSeq(before, LAMBDA e : e.id # x)
            /\ Len(incidents) = Len(before) - 1
            /\ x \notin Ids(incidents)
            /\ id_counter = hist.pre.id_counter

\* a delete of incident 2, which stood between others in a collection that
\* a create had grown to four, has been answered 200
C20_Witness ==
    /\ CallReturned
    /\ hist.req.op = "delete"
    /\ hist.req.arg = 2
    /\ resp.code = 200
    /\ Len(hist.pre.incidents) = 4
    /\ Ids(incidents) = {1, 3, 4}

\* thread t, in update_incident, writes the status or returns the 200
UpdateSucceeds(t) == pc[t] \in {"upd_write", "upd_return"} /\ pc'[t] # pc[t]

\* thread t returns from update_incident with the 404
UpdateFails(t) == pc[t] = "upd_scan" /\ pc'[t] = "idle"

\* C19: an update_incident of x that succeeds replaces the status of the
\* incident of id x by the status of the request and changes nothing else
\* (the id, title and severity of that incident, the other incidents, the
\* length and order of the collection, the id counter), and an update of a
\* seeded id fails only when the collection does not hold that id, whatever
\* the status of the incident.
C19_UpdateFrame ==
    [][\A t \in Threads :
          /\ UpdateSucceeds(t) =>
                /\ Len(incidents') = Len(incidents)
                /\ \A k \in 1..Len(incidents) :
                       incidents'[k] = IF incidents[k].id = loc[t].arg /\ pc[t] = "upd_write"
                                       THEN [incidents[k] EXCEPT !.status = loc[t].data.status]
                                       ELSE incidents[k]
                /\ id_counter' = id_counter
                /\ pc[t] = "upd_return" => resp'.code = 200 /\ resp'.arg = loc[t].arg
          /\ UpdateFails(t) /\ loc[t].arg \in Ids(SeedIncidents)
                => loc[t].arg \notin Ids(incidents)]_vars

\* thread t, serving a create_incident, takes a step
CreateSteps(t) == loc[t].op = "create" /\ pc'[t] # pc[t]

\* C21: a create_incident changes the store in two steps and in no other:
\* the increment in get_next_id makes the id counter grow by exactly 1 and
\* leaves the collection alone, and the append makes the new incident, with
\* the id allocated to it, the last element of the collection, every
\* incident that was there unchanged and at its position, the counter
\* unchanged; the incident returned with the 201 is the one appended.
C21_CreateFrame ==
    [][\A t \in Threads : CreateSteps(t) =>
          /\ pc[t] = "gni_store" =>
                id_counter' = id_counter + 1 /\ incidents' = incidents
          /\ pc[t] = "create_append" =>
                /\ Len(incidents') = Len(incidents) + 1
                /\ \A k \in 1..Len(incidents) : incidents'[k] = incidents[k]
                /\ incidents'[Len(incidents')].id = loc[t].cur.id
                /\ loc[t].cur.id \in issued
                /\ id_counter' = id_counter
          /\ pc[t] \notin {"gni_store", "create_append"} =>
                incidents' = incidents /\ id_counter' = id_counter
          /\ pc[t] = "create_return" =>
                resp'.code = 201 /\ resp'.body = <<ToIncident(loc[t].cur)>>]_vars

\* a create has returned 201 with the incident that is last in the
\* collection while another create holds the id lock, its increment done
C21_Witness ==
    /\ resp.op = "create" /\ resp.code = 201
    /\ Len(incidents) = Len(SeedIncidents) + 1
    /\ <<ToIncident(incidents[Len(incidents)])>> = resp.body
    /\ \E t \in Threads : pc[t] = "gni_return"
    /\ id_counter = SeedCounter + 2

\* C23: in every reachable state, those reached by interleaved concurrent
\* creates included, the incidents of the collection are in strictly
\* increasing order of id.
C23_OrderedById ==
    \A j, k \in 1..Len(incidents) : j < k => incidents[j].id < incidents[k].id

\* thread t is serving a request
Busy(t) == pc[t] # "idle"

\* C22: under fair scheduling of the worker threads every call that a
\* thread has begun (create, update, delete or list) returns, so that no
\* create waits for the id lock for ever and no call is stuck in a state
\* where nothing can move; and the id lock, once taken in get_next_id, is
\* released.
C22_EveryCallCompletes ==
    /\ \A t \in Threads : Busy(t) ~> ~Busy(t)
    /\ (id_lock # 0) ~> (id_lock = 0)

\* a create waits for the id lock that another create holds
C22_Witness ==
    \E t, u \in Threads :
        /\ pc[t] = "gni_acquire"
        /\ id_lock = u
        /\ u # t

(***************************************************************************)
(* Properties of get_incidents served next to creates and deletes, under   *)
(* SpecScan.                                                               *)
(***************************************************************************)
\* C17: the response of a list call is the one a single value of the
\* collection gives: among the values the collection took between the
\* start of the call and its return there is one whose incidents passing
\* the filters are total in number and whose requested page is the page
\* returned, creates and deletes running at the same time or not.
C17_ListSnapshot ==
    hist.done.op = "list" =>
        \E S \in hist.snaps :
            LET R == ListResponse(S, hist.done.q.status, hist.done.q.severity,
                                  hist.done.q.page, hist.done.q.per_page)
            IN  hist.done.code = R.code /\ hist.done.body = R.body

\* C18: no append is lost.  Every incident that a create_incident has
\* returned, and that no delete has removed since, is in the collection
\* exactly once, with the title, status and severity that the create
\* returned, however the creates, deletes and gets of the worker threads
\* interleave.
C18_NoLostAppend ==
    \A m \in hist.made :
        m.id \notin deleted =>
            /\ Cardinality({ k \in 1..Len(incidents) : incidents[k].id = m.id }) = 1
            /\ \A k \in 1..Len(incidents) :
                   incidents[k].id = m.id => ToIncident(incidents[k]) = m.body

\* two creates that overlapped in time have both returned, a delete has
\* removed a seeded incident meanwhile, and both incidents are there
C18_Witness ==
    /\ \E j, k \in 1..Len(created) : j < k /\ created[j].id \notin created[k].before
    /\ Cardinality(hist.made) = 2
    /\ deleted # {}
    /\ MadeIds \subseteq Ids(incidents)

TypeOK ==
    /\ id_counter \in Nat
    /\ id_lock \in {0} \cup Threads
    /\ ops \in 0..MaxOps

(***************************************************************************)
(* Properties of the id allocator and of the collection under Spec.        *)
(***************************************************************************)
\* the positions of get_next_id inside the with id_lock block
InCriticalSection(t) == pc[t] \in {"gni_load", "gni_store", "gni_return"}

\* a create call that holds an allocated id and has not returned yet
HoldsAllocatedId(t) == pc[t] \in {"create_append", "create_return"}

\* C1: the ids returned by create calls, concurrent or not, are pairwise
\* distinct, and at most one thread at a time is inside the with id_lock
\* block of get_next_id.
C1_UniqueIds ==
    /\ \A j, k \in 1..Len(created) : j # k => created[j].id # created[k].id
    /\ \A t, u \in Threads : InCriticalSection(t) /\ InCriticalSection(u) => t = u

\* two create calls that overlapped in time have both returned
C1_Witness ==
    \E j, k \in 1..Len(created) : j < k /\ created[j].id \notin created[k].before

\* C2: counter + 1 is greater than every id ever issued or seeded, deleted
\* ones included, and a create that begins after a delete removed x never
\* returns x.
C2_NextAboveIssued ==
    /\ \A x \in issued \cup CreatedIds \cup deleted \cup Ids(SeedIncidents) \cup Ids(incidents) :
           id_counter + 1 > x
    /\ \A k \in 1..Len(created) : created[k].id \notin created[k].delBefore

\* a create returned that began after a created incident had been deleted
C2_Witness ==
    \E k \in 1..Len(created) :
        /\ created[k].delBefore \cap CreatedIds # {}
        /\ id_counter + 1 > created[k].id

\* C3: when create A returned before create B began, id(A) < id(B).
C3_Monotonic ==
    \A k \in 1..Len(created) : \A a \in created[k].before : a < created[k].id

\* a create returned that began after two others had returned
C3_Witness ==
    \E k \in 1..Len(created) : Cardinality(created[k].before) >= 2

\* C4 as claimed: after n creates have returned, concurrent or not, the ids
\* returned are exactly {4, ..., 3 + n}.
C4_ReturnedContiguous ==
    CreatedIds = (SeedCounter + 1)..(SeedCounter + Len(created))

\* C4 as amended: get_next_id issues 4, 5, ... without gaps; the ids returned
\* are among those issued; and whenever no create call is between its
\* allocation and its return, the n creates that returned hold {4, ..., 3 + n}.
C4_AllocatedContiguous ==
    /\ issued = (SeedCounter + 1)..(SeedCounter + Cardinality(issued))
    /\ CreatedIds \subseteq issued
    /\ (\A t \in Threads : ~HoldsAllocatedId(t)) => C4_ReturnedContiguous

\* two creates have returned with a successful delete in the same run, and
\* no create is in flight
C4_Witness ==
    /\ Len(created) >= 2
    /\ deleted # {}
    /\ \A t \in Threads : ~HoldsAllocatedId(t)
    /\ CreatedIds = {SeedCounter + 1, SeedCounter + 2}

\* C5: no two incidents of the collection have the same id.
C5_UniqueInCollection ==
    \A j, k \in 1..Len(incidents) : j # k => incidents[j].id # incidents[k].id

\* a created incident is in the collection after a delete, an update has
\* just succeeded
C5_Witness ==
    /\ Ids(incidents) \cap CreatedIds # {}
    /\ deleted # {}
    /\ resp.op = "update" /\ resp.code = 200

(***************************************************************************)
(* Properties of get_incidents under SpecList.                             *)
(***************************************************************************)
\* <<lo, hi, step, delta>>: each of the characters lo, lo + step, ..., hi
\* above U+007F folds to the character delta further on (Unicode
\* CaseFolding, statuses C)
FoldRuns ==
    {
      <<181, 181, 1, 775>>, <<192, 214, 1, 32>>, <<216, 222, 1, 32>>, <<256, 302, 2, 1>>,
      <<306, 310, 2, 1>>, <<313, 327, 2, 1>>, <<330, 374, 2, 1>>, <<376, 376, 1, -121>>,
      <<377, 381, 2, 1>>, <<383, 383, 1, -268>>, <<385, 385, 1, 210>>, <<386, 388, 2, 1>>,
      <<390, 390, 1, 206>>, <<391, 391, 1, 1>>, <<393, 394, 1, 205>>, <<395, 395, 1, 1>>,
      <<398, 398, 1, 79>>, <<399, 399, 1, 202>>, <<400, 400, 1, 203>>, <<401, 401, 1, 1>>,
      <<403, 403, 1, 205>>, <<404, 404, 1, 207>>, <<406, 406, 1, 211>>, <<407, 407, 1, 209>>,
      <<408, 408, 1, 1>>, <<412, 412, 1, 211>>, <<413, 413, 1, 213>>, <<415, 415, 1, 214>>,
      <<416, 420, 2, 1>>, <<422, 422, 1, 218>>, <<423, 423, 1, 1>>, <<425, 425, 1, 218>>,
      <<428, 428, 1, 1>>, <<430, 430, 1, 218>>, <<431, 431, 1, 1>>, <<433, 434, 1, 217>>,
      <<435, 437, 2, 1>>, <<439, 439, 1, 219>>, <<440, 440, 1, 1>>, <<444, 444, 1, 1>>,
      <<452, 452, 1, 2>>, <<453, 453, 1, 1>>, <<455, 455, 1, 2>>, <<456, 456, 1, 1>>,
      <<458, 458, 1, 2>>, <<459, 475, 2, 1>>, <<478, 494, 2, 1>>, <<497, 497, 1, 2>>,
      <<498, 500, 2, 1>>, <<502, 502, 1, -97>>, <<503, 503, 1, -56>>, <<504, 542, 2, 1>>,
      <<544, 544, 1, -130>>, <<546, 562, 2, 1>>, <<570, 570, 1, 10795>>, <<571, 571, 1, 1>>,
      <<573, 573, 1, -163>>, <<574, 574, 1, 10792>>, <<577, 577, 1, 1>>, <<579, 579, 1, -195>>,
      <<580, 580, 1, 69>>, <<581, 581, 1, 71>>, <<582, 590, 2, 1>>, <<837, 837, 1, 116>>,
      <<880, 882, 2, 1>>, <<886, 886, 1, 1>>, <<895, 895, 1, 116>>, <<902, 902, 1, 38>>,
      <<904, 906, 1, 37>>, <<908, 908, 1, 64>>, <<910, 911, 1, 63>>, <<913, 929, 1, 32>>,
      <<931, 939, 1, 32>>, <<962, 962, 1, 1>>, <<975, 975, 1, 8>>, <<976, 976, 1, -30>>,
      <<977, 977, 1, -25>>, <<981, 981, 1, -15>>, <<982, 982, 1, -22>>, <<984, 1006, 2, 1>>,
      <<1008, 1008, 1, -54>>, <<1009, 1009, 1, -48>>, <<1012, 1012, 1, -60>>, <<1013, 1013, 1, -64>>,
      <<1015, 1015, 1, 1>>, <<1017, 1017, 1, -7>>, <<1018, 1018, 1, 1>>, <<1021, 1023, 1, -130>>,
      <<1024, 1039, 1, 80>>, <<1040, 1071, 1, 32>>, <<1120, 1152, 2, 1>>, <<1162, 1214, 2, 1>>,
      <<1216, 1216, 1, 15>>, <<1217, 1229, 2, 1>>, <<1232, 1326, 2, 1>>, <<1329, 1366, 1, 48>>,
      <<4256, 4293, 1, 7264>>, <<4295, 4295, 1, 7264>>, <<4301, 4301, 1, 7264>>, <<5112, 5117, 1, -8>>,
      <<7296, 7296, 1, -6222>>, <<7297, 7297, 1, -6221>>, <<7298, 7298, 1, -6212>>, <<7299, 7300, 1, -6210>>,
      <<7301, 7301, 1, -6211>>, <<7302, 7302, 1, -6204>>, <<7303, 7303, 1, -6180>>, <<7304, 7304, 1, 35267>>,
      <<7312, 7354, 1, -3008>>, <<7357, 7359, 1, -3008>>, <<7680, 7828, 2, 1>>, <<7835, 7835, 1, -58>>,
      <<7840, 7934, 2, 1>>, <<7944, 7951, 1, -8>>, <<7960, 7965, 1, -8>>, <<7976, 7983, 1, -8>>,
      <<7992, 7999, 1, -8>>, <<8008, 8013, 1, -8>>, <<8025, 8031, 2, -8>>, <<8040, 8047, 1, -8>>,
      <<8120, 8121, 1, -8>>, <<8122, 8123, 1, -74>>, <<8126, 8126, 1, -7173>>, <<8136, 8139, 1, -86>>,
      <<8152, 8153, 1, -8>>, <<8154, 8155, 1, -100>>, <<8168, 8169, 1, -8>>, <<8170, 8171, 1, -112>>,
      <<8172, 8172, 1, -7>>, <<8184, 8185, 1, -128>>, <<8186, 8187, 1, -126>>, <<8486, 8486, 1, -7517>>,
      <<8490, 8490, 1, -8383>>, <<8491, 8491, 1, -8262>>, <<8498, 8498, 1, 28>>, <<8544, 8559, 1, 16>>,
      <<8579, 8579, 1, 1>>, <<9398, 9423, 1, 26>>, <<11264, 11311, 1, 48>>, <<11360, 11360, 1, 1>>,
      <<11362, 11362, 1, -10743>>, <<11363, 11363, 1, -3814>>, <<11364, 11364, 1, -10727>>, <<11367, 11371, 2, 1>>,
      <<11373, 11373, 1, -10780>>, <<11374, 11374, 1, -10749>>, <<11375, 11375, 1, -10783>>, <<11376, 11376, 1, -10782>>,
      <<11378, 11378, 1, 1>>, <<11381, 11381, 1, 1>>, <<11390, 11391, 1, -10815>>, <<11392, 11490, 2, 1>>,
      <<11499, 11501, 2, 1>>, <<11506, 11506, 1, 1>>, <<42560, 42604, 2, 1>>, <<42624, 42650, 2, 1>>,
      <<42786, 42798, 2, 1>>, <<42802, 42862, 2, 1>>, <<42873, 42875, 2, 1>>, <<42877, 42877, 1, -35332>>,
      <<42878, 42886, 2, 1>>, <<42891, 42891, 1, 1>>, <<42893, 42893, 1, -42280>>, <<42896, 42898, 2, 1>>,
      <<42902, 42920, 2, 1>>, <<42922, 42922, 1, -42308>>, <<42923, 42923, 1, -42319>>, <<42924, 42924, 1, -42315>>,
      <<42925, 42925, 1, -42305>>, <<42926, 42926, 1, -42308>>, <<42928, 42928, 1, -42258>>, <<42929, 42929, 1, -42282>>,
      <<42930, 42930, 1, -42261>>, <<42931, 42931, 1, 928>>, <<42932, 42946, 2, 1>>, <<42948, 42948, 1, -48>>,
      <<42949, 42949, 1, -42307>>, <<42950, 42950, 1, -35384>>, <<42951, 42953, 2, 1>>, <<42960, 42960, 1, 1>>,
      <<42966, 42968, 2, 1>>, <<42997, 42997, 1, 1>>, <<43888, 43967, 1, -38864>>, <<65313, 65338, 1, 32>>,
      <<66560, 66599, 1, 40>>, <<66736, 66771, 1, 40>>, <<66928, 66938, 1, 39>>, <<66940, 66954, 1, 39>>,
      <<66956, 66962, 1, 39>>, <<66964, 66965, 1, 39>>, <<68736, 68786, 1, 64>>, <<71840, 71871, 1, 32>>,
      <<93760, 93791, 1, 32>>, <<125184, 125217, 1, 34>> }

\* <<c, t>>: the character c folds to the text t (CaseFolding, status F)
FoldFull ==
    {
      <<223, <<115, 115>>>>, <<304, <<105, 775>>>>, <<329, <<700, 110>>>>, <<496, <<106, 780>>>>,
      <<912, <<953, 776, 769>>>>, <<944, <<965, 776, 769>>>>, <<1415, <<1381, 1410>>>>, <<7830, <<104, 817>>>>,
      <<7831, <<116, 776>>>>, <<7832, <<119, 778>>>>, <<7833, <<121, 778>>>>, <<7834, <<97, 702>>>>,
      <<7838, <<115, 115>>>>, <<8016, <<965, 787>>>>, <<8018, <<965, 787, 768>>>>, <<8020, <<965, 787, 769>>>>,
      <<8022, <<965, 787, 834>>>>, <<8064, <<7936, 953>>>>, <<8065, <<7937, 953>>>>, <<8066, <<7938, 953>>>>,
      <<8067, <<7939, 953>>>>, <<8068, <<7940, 953>>>>, <<8069, <<7941, 953>>>>, <<8070, <<7942, 953>>>>,
      <<8071, <<7943, 953>>>>, <<8072, <<7936, 953>>>>, <<8073, <<7937, 953>>>>, <<8074, <<7938, 953>>>>,
      <<8075, <<7939, 953>>>>, <<8076, <<7940, 953>>>>, <<8077, <<7941, 953>>>>, <<8078, <<7942, 953>>>>,
      <<8079, <<7943, 953>>>>, <<8080, <<7968, 953>>>>, <<8081, <<7969, 953>>>>, <<8082, <<7970, 953>>>>,
      <<8083, <<7971, 953>>>>, <<8084, <<7972, 953>>>>, <<8085, <<7973, 953>>>>, <<8086, <<7974, 953>>>>,
      <<8087, <<7975, 953>>>>, <<8088, <<7968, 953>>>>, <<8089, <<7969, 953>>>>, <<8090, <<7970, 953>>>>,
      <<8091, <<7971, 953>>>>, <<8092, <<7972, 953>>>>, <<8093, <<7973, 953>>>>, <<8094, <<7974, 953>>>>,
      <<8095, <<7975, 953>>>>, <<8096, <<8032, 953>>>>, <<8097, <<8033, 953>>>>, <<8098, <<8034, 953>>>>,
      <<8099, <<8035, 953>>>>, <<8100, <<8036, 953>>>>, <<8101, <<8037, 953>>>>, <<8102, <<8038, 953>>>>,
      <<8103, <<8039, 953>>>>, <<8104, <<8032, 953>>>>, <<8105, <<8033, 953>>>>, <<8106, <<8034, 953>>>>,
      <<8107, <<8035, 953>>>>, <<8108, <<8036, 953>>>>, <<8109, <<8037, 953>>>>, <<8110, <<8038, 953>>>>,
      <<8111, <<8039, 953>>>>, <<8114, <<8048, 953>>>>, <<8115, <<945, 953>>>>, <<8116, <<940, 953>>>>,
      <<8118, <<945, 834>>>>, <<8119, <<945, 834, 953>>>>, <<8124, <<945, 953>>>>, <<8130, <<8052, 953>>>>,
      <<8131, <<951, 953>>>>, <<8132, <<942, 953>>>>, <<8134, <<951, 834>>>>, <<8135, <<951, 834, 953>>>>,
      <<8140, <<951, 953>>>>, <<8146, <<953, 776, 768>>>>, <<8147, <<953, 776, 769>>>>, <<8150, <<953, 834>>>>,
      <<8151, <<953, 776, 834>>>>, <<8162, <<965, 776, 768>>>>, <<8163, <<965, 776, 769>>>>, <<8164, <<961, 787>>>>,
      <<8166, <<965, 834>>>>, <<8167, <<965, 776, 834>>>>, <<8178, <<8060, 953>>>>, <<8179, <<969, 953>>>>,
      <<8180, <<974, 953>>>>, <<8182, <<969, 834>>>>, <<8183, <<969, 834, 953>>>>, <<8188, <<969, 953>>>>,
      <<64256, <<102, 102>>>>, <<64257, <<102, 105>>>>, <<64258, <<102, 108>>>>, <<64259, <<102, 102, 105>>>>,
      <<64260, <<102, 102, 108>>>>, <<64261, <<115, 116>>>>, <<64262, <<115, 116>>>>, <<64275, <<1396, 1398>>>>,
      <<64276, <<1396, 1381>>>>, <<64277, <<1396, 1387>>>>, <<64278, <<1406, 1398>>>>, <<64279, <<1396, 1389>>>> }

\* the case-folded form of one character
FoldChar(c) ==
    IF c < 128 THEN <<IF 65 <= c /\ c <= 90 THEN c + 32 ELSE c>>
    ELSE IF \E f \in FoldFull : f[1] = c
         THEN (CHOOSE f \in FoldFull : f[1] = c)[2]
    ELSE IF \E r \in FoldRuns : InRun(c, r)
         THEN <<c + (CHOOSE r \in FoldRuns : InRun(c, r))[4]>>
         ELSE <<c>>

RECURSIVE CaseFoldFrom(_, _)
CaseFoldFrom(s, k) ==
    IF k > Len(s) THEN <<>> ELSE FoldChar(s[k]) \o CaseFoldFrom(s, k + 1)

\* two texts are equal ignoring letter case when their case-folded forms
\* are the same text
EqIgnoreCase(a, b) == CaseFoldFrom(a, 1) = CaseFoldFrom(b, 1)

Listed == resp.op = "list"
ListedOk == resp.op = "list" /\ resp.code = 200
Page == resp.body[1]

\* C6: the filtered sequence is the subsequence of the collection, in the
\* original order, of the incidents whose status equals S ignoring letter
\* case when S is given and whose severity equals V ignoring letter case
\* when V is given; a filter that is not given imposes no constraint.
C6_FilterWhenGiven ==
    Listed =>
        LET Keep(i) ==
                /\ lst.status # None => EqIgnoreCase(i.status, lst.status[1])
                /\ lst.severity # None => EqIgnoreCase(i.severity, lst.severity[1])
        IN  lst.filtered = SelectSeq(incidents, Keep)

\* the same with a filter given as the empty text counted as not given:
\* the statement that is left when `if status:` and `if severity:` are read
\* as the test for a given filter
C6_FilterWhenNonEmpty ==
    Listed =>
        LET Keep(i) ==
                /\ Truthy(lst.status) => EqIgnoreCase(i.status, lst.status[1])
                /\ Truthy(lst.severity) => EqIgnoreCase(i.severity, lst.severity[1])
        IN  lst.filtered = SelectSeq(incidents, Keep)

\* the same again on ASCII texts, where the lower-cased forms of two texts
\* are equal exactly when their case-folded forms are
IsAscii(t) == \A k \in 1..Len(t) : t[k] < 128
C6_FilterAscii ==
    (/\ Listed
     /\ \A k \in 1..Len(incidents) : IsAscii(incidents[k].status)
     /\ lst.status # None => IsAscii(lst.status[1]))
        => LET Keep(i) ==
                   /\ Truthy(lst.status) => EqIgnoreCase(i.status, lst.status[1])
                   /\ Truthy(lst.severity) => EqIgnoreCase(i.severity, lst.severity[1])
           IN  lst.filtered = SelectSeq(incidents, Keep)

\* the least k with k * d >= n, for n >= 0 and d >= 1
CeilDiv(n, d) == CHOOSE k \in 0..n : k * d >= n /\ \A j \in 0..n : j * d >= n => k <= j

\* the incident lists returned for pages p, p + 1, ..., last of the request
\* in lst, one after the other
RECURSIVE ConcatPages(_, _)
ConcatPages(p, last) ==
    IF p > last THEN <<>>
    ELSE ListResponse(incidents, lst.status, lst.severity, p, lst.per_page).body[1].incidents
             \o ConcatPages(p + 1, last)

\* C7: for per_page >= 1, total_pages = ceil(total / min(per_page, 100)) and
\* pages 1..total_pages, concatenated, are the filtered sequence.
C7_Pagination ==
    (ListedOk /\ lst.per_page >= 1) =>
        /\ Page.total = Len(lst.filtered)
        /\ Page.total_pages = CeilDiv(Page.total, Min(lst.per_page, PageCap))
        /\ ConcatPages(1, Page.total_pages) =
               [k \in 1..Len(lst.filtered) |-> ToIncident(lst.filtered[k])]

\* a filtered list of several incidents spread over at least two pages, the
\* last of them not full
C7_Witness ==
    /\ ListedOk /\ lst.per_page >= 2
    /\ Truthy(lst.status)
    /\ Page.total_pages >= 2
    /\ Page.total < Page.total_pages * Page.per_page

\* C8: list never fails: every request gets a 200 response with incidents,
\* total, page, per_page and total_pages.
C8_ListNeverFails ==
    Listed =>
        /\ resp.code = 200
        /\ Len(resp.body) = 1
        /\ DOMAIN resp.body[1] = {"incidents", "total", "page", "per_page", "total_pages"}

\* C9: the per_page reported is min(requested, 100), never above 100, the
\* page never holds more than 100 incidents, and 1000 gives 100.
C9_PerPageCapped ==
    ListedOk =>
        /\ Page.per_page = Min(lst.per_page, PageCap)
        /\ Page.per_page <= PageCap
        /\ Len(Page.incidents) <= PageCap
        /\ lst.per_page = 1000 => Page.per_page = 100

\* C10: when the filtered total is 0, total_pages is 0, for every per_page
\* for which list returns a result.
C10_NoPagesWhenEmpty ==
    (ListedOk /\ Page.total = 0) => Page.total_pages = 0

====
